---- MODULE Spec2Model ----
(***************************************************************************)
(* Model of the obsidian-mcp protocol server runtime (src/src/server.ts):   *)
(* the tool registry, request admission and dispatch, the idle watchdog,    *)
(* the start/stop lifecycle and the HTTP listener of ObsidianServer, and    *)
(* main(): command line, vault path validation, vault names, startup.       *)
(***************************************************************************)
EXTENDS Integers, Sequences, FiniteSets, TLC

VARIABLES
  tools,             \* ObsidianServer.tools: Map<string, Tool>, as its entries in insertion order
  vaults,            \* ObsidianServer.vaults: Map<string, string>, vault name to resolved path
  registered,        \* history: every descriptor passed to registerTool, in call order
  regThrew,          \* history: whether the last registerTool call threw
  now,               \* Date.now(), in abstract time units
  connectionMonitor, \* ConnectionMonitor: [lastActivity, running, initialized]
  rateLimiter,       \* RateLimiter: per key, the timestamps of the admitted calls in the window
  inflight,          \* call-tool requests suspended at `await tool.handler(validatedArgs)`
  resp,              \* the response or error of the request that completed last
  trace,             \* the steps the request that completed last went through, in order
  lastSizeOk,        \* history: the time the last request passed the message-size guard
  served,            \* history: the number of requests received
  startState,        \* start(): [phase, type], phase "new", "connecting", "listening", "running", "failed"
  wire,              \* the SDK's side: [connected, listening, ended] (transport connected,
                     \* port bound, stdio channel closed by the peer)
  activeTransport,   \* ObsidianServer.activeTransport: "none", "stdio" or "http"
  httpServer,        \* ObsidianServer.httpServer is set
  stops,             \* the invocations of stop(), each with its position and its log
  isShuttingDown,    \* main's isShuttingDown flag of the signal handler
  exited,            \* process.exit() was called
  shutdownCalls,     \* history: how often the watchdog invoked its shutdown callback
  firedIdle,         \* history: [sinceRequest, grace] when the watchdog fired last
  proc,              \* the process running main(): its position, argv, stdout, stderr, exit status
  http,              \* history: the exchanges the HTTP request listener answered, in order
  pair               \* two servers side by side, each with its own limiter, clock and decisions

regVars   == <<tools, vaults, registered, regThrew>>
admVars   == <<now, connectionMonitor, rateLimiter, lastSizeOk, served>>
callVars  == <<inflight, resp, trace>>
lifeVars  == <<startState, wire, activeTransport, httpServer, stops, isShuttingDown,
               exited, shutdownCalls, firedIdle>>
mainVars  == <<proc, http, pair>>
vars      == <<regVars, admVars, callVars, lifeVars, mainVars>>

(***************************************************************************)
(* Bounds of the model.                                                     *)
(***************************************************************************)
MaxReg == 3

MaxRequests == 3

MaxInFlight == 1

MaxTime == 5

MaxStops == 2

MaxArgs == 2

MaxNames == 3

MaxConfigs == 2

MaxExchanges == 2

MaxCalls == 4

(***************************************************************************)
(* Errors: McpError(code, message), z.ZodError(issues), Error(message).     *)
(* A message is the sequence of the fragments the code concatenates.        *)
(***************************************************************************)
NoError == [kind |-> "none"]

McpError(code, message) == [kind |-> "McpError", code |-> code, message |-> message]

ZodError(issues) == [kind |-> "ZodError", issues |-> issues]

PlainError(message) == [kind |-> "Error", message |-> message]

(***************************************************************************)
(* JavaScript's Map: entries in insertion order; set() on a present key     *)
(* replaces the value in place, on an absent key appends an entry.          *)
(***************************************************************************)
MapHas(m, k) == \E i \in DOMAIN m : m[i].key = k

MapGet(m, k) == m[CHOOSE i \in DOMAIN m : m[i].key = k].value

MapSet(m, k, v) ==
  IF MapHas(m, k)
  THEN [i \in DOMAIN m |-> IF m[i].key = k THEN [key |-> k, value |-> v] ELSE m[i]]
  ELSE Append(m, [key |-> k, value |-> v])

MapValues(m) == [i \in DOMAIN m |-> m[i].value]

MapKeys(m) == [i \in DOMAIN m |-> m[i].key]

(***************************************************************************)
(* Values of request arguments: JSON strings and numbers, tagged.           *)
(***************************************************************************)
S(v) == [t |-> "string", v |-> v]

N(v) == [t |-> "number", v |-> v]

Obj(fields) == [kind |-> "object", fields |-> fields]

Undefined == [kind |-> "undefined", fields |-> <<>>]

Range(f) == {f[i] : i \in DOMAIN f}

(***************************************************************************)
(* Tool descriptors (Tool<T>: name, description, inputSchema, handler).     *)
(* EchoTool is the tool of the repository's tests; the tools built by the   *)
(* factories main imports follow the tool contract.                         *)
(***************************************************************************)
EchoTool ==
  [name |-> "echo", description |-> "Echo back provided text",
   inputSchema |-> "echo", handler |-> "echo"]

ReadNoteTool ==
  [name |-> "read-note", description |-> "Read the content of a note",
   inputSchema |-> "note", handler |-> "external"]

ShadowTool ==
  [name |-> "echo", description |-> "Another tool registered as echo",
   inputSchema |-> "note", handler |-> "external"]

ToolPool == {EchoTool, ReadNoteTool, ShadowTool}

\* The fields of a z.object({...}) schema, all z.string().
SchemaFields(schema) ==
  IF schema = "echo" THEN <<"message">> ELSE <<"vault", "filename">>

\* tool.inputSchema.jsonSchema
JsonSchema(schema) ==
  [type |-> "object", properties |-> SchemaFields(schema), required |-> SchemaFields(schema)]

RECURSIVE ZodIssues(_, _)
ZodIssues(fields, args) ==
  IF fields = <<>> THEN <<>>
  ELSE LET f == Head(fields)
           rest == ZodIssues(Tail(fields), args)
       IN  IF f \notin DOMAIN args.fields
           THEN <<[path |-> <<f>>, message |-> "Required"]>> \o rest
           ELSE IF args.fields[f].t # "string"
           THEN <<[path |-> <<f>>, message |-> "Expected string, received number"]>> \o rest
           ELSE rest

\* tool.inputSchema.parse(args) of a z.object schema: every violated field is an
\* issue of one ZodError; on success the known keys are kept and the others stripped.
ZodObjectParse(schema, args) ==
  IF args.kind # "object"
  THEN [err |-> ZodError(<<[path |-> <<>>, message |-> "Required"]>>), value |-> <<>>]
  ELSE LET issues == ZodIssues(SchemaFields(schema), args)
       IN  IF issues # <<>>
           THEN [err |-> ZodError(issues), value |-> <<>>]
           ELSE [err |-> NoError,
                 value |-> [f \in Range(SchemaFields(schema)) |-> args.fields[f].v]]

\* What tool.handler(validatedArgs) can settle to. The echo handler returns its
\* message; a handler of the external tool implementations may return content or
\* throw an Error, an McpError or a ZodError of its own.
HandlerOutcomes(handler, validatedArgs) ==
  IF handler = "echo"
  THEN {[err |-> NoError,
         content |-> <<[type |-> "text",
                        text |-> IF "message" \in DOMAIN validatedArgs
                                 THEN validatedArgs["message"] ELSE "undefined"]>>]}
  ELSE {[err |-> NoError, content |-> <<[type |-> "text", text |-> "note content"]>>],
        [err |-> PlainError("ENOENT: no such file"), content |-> <<>>],
        [err |-> McpError("InvalidRequest", <<<<"Vault not found">>>>), content |-> <<>>],
        [err |-> ZodError(<<[path |-> <<"frontmatter", "tags">>, message |-> "Invalid"]>>),
         content |-> <<>>]}

(***************************************************************************)
(* registerTool(tool): this.tools.set(tool.name, tool).                     *)
(***************************************************************************)
\* A registry kept as a list: every registration appends an entry.
registerToolAppend(m, tool) ==
  [tools |-> Append(m, [key |-> tool.name, value |-> tool]), threw |-> FALSE]

registerTool(m, tool) == [tools |-> MapSet(m, tool.name, tool), threw |-> FALSE]

(***************************************************************************)
(* Admission control. validateMessageSize, RateLimiter and                  *)
(* ConnectionMonitor live in utils/security.ts; validateRequest calls them. *)
(***************************************************************************)
MaxMessageSize == 4

RateMax == 2

RateWindow == 2

IdleTimeout == 2

StartupGrace == 3

Methods ==
  {"prompts/list", "prompts/get", "tools/list", "resources/list", "resources/read",
   "tools/call"}

Line(frags) == <<frags>>

\* validateMessageSize(request): throws when the message exceeds the ceiling.
validateMessageSize(request) ==
  IF request.size > MaxMessageSize
  THEN McpError("InvalidRequest", Line(<<"PayloadTooLarge">>))
  ELSE NoError

\* connectionMonitor.updateActivity(): the idle clock restarts; a request ends the
\* startup phase.
updateActivity(cm, t) == [cm EXCEPT !.lastActivity = t, !.initialized = TRUE]

\* A limiter that records an admitted call over the window instead of adding to it.
checkLimitOverwrite(rl, key, t) ==
  LET recent == SelectSeq(rl[key], LAMBDA x : x > t - RateWindow)
      admitted == Len(recent) < RateMax
  IN  [admitted |-> admitted,
       rl |-> [rl EXCEPT ![key] = IF admitted THEN <<t>> ELSE recent]]

\* A limiter with one window for all keys together.
checkLimitShared(rl, key, t) ==
  LET recent == SelectSeq(rl[key], LAMBDA x : x > t - RateWindow)
      all == {<<m, i>> \in Methods \X (1..(RateMax + 1)) :
                i \in DOMAIN rl[m] /\ rl[m][i] > t - RateWindow}
      admitted == Cardinality(all) < RateMax
  IN  [admitted |-> admitted,
       rl |-> [rl EXCEPT ![key] = IF admitted THEN Append(recent, t) ELSE recent]]

\* rateLimiter.checkLimit(key): a sliding window of the admitted calls of the key.
checkLimit(rl, key, t) ==
  LET recent == SelectSeq(rl[key], LAMBDA x : x > t - RateWindow)
      admitted == Len(recent) < RateMax
  IN  [admitted |-> admitted,
       rl |-> [rl EXCEPT ![key] = IF admitted THEN Append(recent, t) ELSE recent]]

\* The same admission steps in another order: the rate check before the size guard.
validateRequestRateFirst(request, cm, rl, t) ==
  LET lim == checkLimit(rl, request.method, t)
      sizeErr == validateMessageSize(request)
  IN  IF ~lim.admitted
      THEN [err |-> McpError("InvalidRequest", Line(<<"Rate limit exceeded">>)),
            cm |-> cm, rl |-> lim.rl, trace |-> <<"rate">>]
      ELSE IF sizeErr # NoError
      THEN [err |-> sizeErr, cm |-> cm, rl |-> lim.rl, trace |-> <<"rate", "size">>]
      ELSE [err |-> NoError, cm |-> updateActivity(cm, t), rl |-> lim.rl,
            trace |-> <<"rate", "size", "activity">>]

\* Admission without the activity update.
validateRequestNoActivity(request, cm, rl, t) ==
  LET sizeErr == validateMessageSize(request)
      lim == checkLimit(rl, request.method, t)
  IN  IF sizeErr # NoError
      THEN [err |-> sizeErr, cm |-> cm, rl |-> rl, trace |-> <<"size">>]
      ELSE [err |-> IF lim.admitted THEN NoError
                    ELSE McpError("InvalidRequest", Line(<<"Rate limit exceeded">>)),
            cm |-> cm, rl |-> lim.rl, trace |-> <<"size", "rate">>]

\* Admission that counts a request as activity only once the rate check admitted it.
validateRequestActivityLast(request, cm, rl, t) ==
  LET sizeErr == validateMessageSize(request)
  IN  IF sizeErr # NoError
      THEN [err |-> sizeErr, cm |-> cm, rl |-> rl, trace |-> <<"size">>]
      ELSE LET lim == checkLimit(rl, request.method, t)
           IN  IF ~lim.admitted
               THEN [err |-> McpError("InvalidRequest", Line(<<"Rate limit exceeded">>)),
                     cm |-> cm, rl |-> lim.rl, trace |-> <<"size", "rate">>]
               ELSE [err |-> NoError, cm |-> updateActivity(cm, t), rl |-> lim.rl,
                     trace |-> <<"size", "rate", "activity">>]

\* ObsidianServer.validateRequest(request): size guard, activity update, rate check.
validateRequest(request, cm, rl, t) ==
  LET sizeErr == validateMessageSize(request)
  IN  IF sizeErr # NoError
      THEN [err |-> sizeErr, cm |-> cm, rl |-> rl, trace |-> <<"size">>]
      ELSE LET cm2 == updateActivity(cm, t)
               lim == checkLimit(rl, request.method, t)
           IN  IF ~lim.admitted
               THEN [err |-> McpError("InvalidRequest", Line(<<"Rate limit exceeded">>)),
                     cm |-> cm2, rl |-> lim.rl, trace |-> <<"size", "activity", "rate">>]
               ELSE [err |-> NoError, cm |-> cm2, rl |-> lim.rl,
                     trace |-> <<"size", "activity", "rate">>]

(***************************************************************************)
(* Responses. A handler's outcome: the response, the admission state it     *)
(* leaves, the steps it took and, for call-tool, the suspended call.        *)
(***************************************************************************)
NoTool == [name |-> "", description |-> "", inputSchema |-> "", handler |-> ""]

NoPending == [active |-> FALSE, request |-> <<>>, tool |-> NoTool, validatedArgs |-> <<>>,
              trace |-> <<>>]

\* The fields tool, thrown and returned are history: the tool the call resolved to and
\* what its handler threw or returned.
OkResp(request, result) ==
  [request |-> request, ok |-> TRUE, error |-> NoError, result |-> result, tool |-> NoTool,
   thrown |-> NoError, returned |-> <<>>]

ErrResp(request, err) ==
  [request |-> request, ok |-> FALSE, error |-> err, result |-> <<>>, tool |-> NoTool,
   thrown |-> NoError, returned |-> <<>>]

Outcome(r, v, steps) ==
  [resp |-> r, cm |-> v.cm, rl |-> v.rl, trace |-> v.trace \o steps, pending |-> NoPending]

(***************************************************************************)
(* Prompts and resources (utils/prompt-factory.ts, resources/resources.ts). *)
(***************************************************************************)
VaultScheme == "obsidian-vault://"

Prompts == <<[name |-> "list-vaults", description |-> "List the available vaults"]>>

listPrompts == [prompts |-> Prompts]

getPrompt(name, vs, args) ==
  IF \E i \in DOMAIN Prompts : Prompts[i].name = name
  THEN [err |-> NoError, result |-> [messages |-> MapKeys(vs)]]
  ELSE [err |-> McpError("InvalidRequest", Line(<<"Prompt not found: ", name>>)),
        result |-> <<>>]

listVaultResources(vs) ==
  [i \in DOMAIN vs |-> [uri |-> <<VaultScheme, vs[i].key>>, name |-> vs[i].key]]

readVaultResource(vs, uri) ==
  IF MapHas(vs, uri[2])
  THEN [err |-> NoError, result |-> [uri |-> uri, text |-> MapGet(vs, uri[2])]]
  ELSE [err |-> McpError("InvalidRequest", Line(<<"Unknown vault: ", uri[2]>>)),
        result |-> <<>>]

(***************************************************************************)
(* The request handlers of setupHandlers().                                 *)
(***************************************************************************)
ListPromptsHandler(request, ts, vs, cm, rl, t) ==
  LET v == validateRequest(request, cm, rl, t)
  IN  IF v.err # NoError THEN Outcome(ErrResp(request, v.err), v, <<>>)
      ELSE Outcome(OkResp(request, listPrompts), v, <<"listPrompts">>)

GetPromptHandler(request, ts, vs, cm, rl, t) ==
  LET v == validateRequest(request, cm, rl, t)
      name == request.params.name
  IN  IF v.err # NoError THEN Outcome(ErrResp(request, v.err), v, <<>>)
      ELSE IF name.t # "string" \/ name.v = ""
      THEN Outcome(ErrResp(request,
                     McpError("InvalidParams", Line(<<"Missing or invalid prompt name">>))),
                   v, <<>>)
      ELSE LET r == getPrompt(name.v, vs, request.params.arguments)
           IN  IF r.err # NoError
               THEN Outcome(ErrResp(request, r.err), v, <<"getPrompt">>)
               ELSE Outcome(OkResp(request,
                              [messages |-> r.result.messages,
                               meta |-> [promptName |-> name.v, timestamp |-> t]]),
                            v, <<"getPrompt">>)

ListToolsHandler(request, ts, vs, cm, rl, t) ==
  LET v == validateRequest(request, cm, rl, t)
  IN  IF v.err # NoError THEN Outcome(ErrResp(request, v.err), v, <<>>)
      ELSE Outcome(OkResp(request,
                     [tools |-> [i \in DOMAIN ts |->
                        [name |-> ts[i].value.name,
                         description |-> ts[i].value.description,
                         inputSchema |-> JsonSchema(ts[i].value.inputSchema)]]]),
                   v, <<"listTools">>)

ListResourcesHandler(request, ts, vs, cm, rl, t) ==
  LET v == validateRequest(request, cm, rl, t)
  IN  IF v.err # NoError THEN Outcome(ErrResp(request, v.err), v, <<>>)
      ELSE Outcome(OkResp(request,
                     [resources |-> listVaultResources(vs), resourceTemplates |-> <<>>]),
                   v, <<"listResources">>)

\* A read-resource handler that hands every URI it is given to the reader.
ReadResourceHandlerAnyScheme(request, ts, vs, cm, rl, t) ==
  LET v == validateRequest(request, cm, rl, t)
      uri == request.params.uri
  IN  IF v.err # NoError THEN Outcome(ErrResp(request, v.err), v, <<>>)
      ELSE IF uri = <<"", "">>
      THEN Outcome(ErrResp(request,
                     McpError("InvalidParams", Line(<<"Missing or invalid URI parameter">>))),
                   v, <<>>)
      ELSE LET r == readVaultResource(vs, uri)
           IN  IF r.err # NoError
               THEN Outcome(ErrResp(request, r.err), v, <<"readResource">>)
               ELSE Outcome(OkResp(request, [contents |-> <<r.result>>]),
                            v, <<"readResource">>)

ReadResourceHandler(request, ts, vs, cm, rl, t) ==
  LET v == validateRequest(request, cm, rl, t)
      uri == request.params.uri
  IN  IF v.err # NoError THEN Outcome(ErrResp(request, v.err), v, <<>>)
      ELSE IF uri = <<"", "">>
      THEN Outcome(ErrResp(request,
                     McpError("InvalidParams", Line(<<"Missing or invalid URI parameter">>))),
                   v, <<>>)
      ELSE IF uri[1] # VaultScheme
      THEN Outcome(ErrResp(request,
                     McpError("InvalidParams",
                       Line(<<"Invalid URI format. Only vault resources are supported.">>))),
                   v, <<>>)
      ELSE LET r == readVaultResource(vs, uri)
           IN  IF r.err # NoError
               THEN Outcome(ErrResp(request, r.err), v, <<"readResource">>)
               ELSE Outcome(OkResp(request, [contents |-> <<r.result>>]),
                            v, <<"readResource">>)

\* e.path.join(".")
RECURSIVE JoinDot(_)
JoinDot(path) ==
  IF Len(path) <= 1 THEN path
  ELSE <<Head(path), ".">> \o JoinDot(Tail(path))

\* A report of the first issue only.
FormatFirstIssue(issues) ==
  IF issues = <<>> THEN <<>>
  ELSE <<IF issues[1].path # <<>>
         THEN <<issues[1].path[1], ": ", issues[1].message>>
         ELSE <<issues[1].message>>>>

\* One line per issue: `${path ? path + ': ' : ''}${message}`.
FormatIssues(issues) ==
  [i \in DOMAIN issues |->
     IF issues[i].path # <<>>
     THEN JoinDot(issues[i].path) \o <<": ", issues[i].message>>
     ELSE <<issues[i].message>>]

\* The catch block of the call-tool handler.
ToolError(error) ==
  IF error.kind = "ZodError"
  THEN McpError("InvalidParams", <<<<"Invalid arguments:">>>> \o FormatIssues(error.issues))
  ELSE IF error.kind = "McpError" THEN error
  ELSE McpError("InternalError", Line(<<"Tool execution failed: ", error.message>>))

\* this.tools.get(name) with the name's case ignored.
Lower(name) == IF name = "Echo" THEN "echo" ELSE name

ResolveToolIgnoreCase(ts, name) ==
  IF \E i \in DOMAIN ts : Lower(ts[i].key) = Lower(name)
  THEN [found |-> TRUE,
        tool |-> ts[CHOOSE i \in DOMAIN ts : Lower(ts[i].key) = Lower(name)].value]
  ELSE [found |-> FALSE, tool |-> NoTool]

\* const tool = this.tools.get(name); if (!tool) ...
ResolveTool(ts, name) ==
  IF MapHas(ts, name) THEN [found |-> TRUE, tool |-> MapGet(ts, name)]
  ELSE [found |-> FALSE, tool |-> NoTool]

\* The try block with the parse result ignored: the handler gets the raw arguments.
ToolTryIgnoreIssues(tool, args) ==
  [err |-> NoError, started |-> TRUE,
   validatedArgs |-> [f \in DOMAIN args.fields |-> args.fields[f].v],
   steps |-> <<"parse", "handler">>]

\* The try block up to its await: parse the arguments, then call the handler.
ToolTry(tool, args) ==
  LET p == ZodObjectParse(tool.inputSchema, args)
  IN  IF p.err # NoError
      THEN [err |-> p.err, started |-> FALSE, validatedArgs |-> <<>>, steps |-> <<"parse">>]
      ELSE [err |-> NoError, started |-> TRUE, validatedArgs |-> p.value,
            steps |-> <<"parse", "handler">>]

\* The call-tool handler up to `await tool.handler(validatedArgs)`.
CallToolHandler(request, ts, vs, cm, rl, t) ==
  LET v == validateRequest(request, cm, rl, t)
      name == request.params.name
      args == request.params.arguments
  IN  IF v.err # NoError THEN Outcome(ErrResp(request, v.err), v, <<>>)
      ELSE IF name.t # "string" \/ name.v = ""
      THEN Outcome(ErrResp(request,
                     McpError("InvalidParams", Line(<<"Missing or invalid tool name">>))),
                   v, <<>>)
      ELSE LET r == ResolveTool(ts, name.v)
           IN  IF ~r.found
               THEN Outcome(ErrResp(request,
                              McpError("MethodNotFound", Line(<<"Unknown tool: ", name.v>>))),
                            v, <<"resolve">>)
               ELSE LET b == ToolTry(r.tool, args)
                    IN  IF ~b.started
                        THEN Outcome([ErrResp(request, ToolError(b.err))
                                        EXCEPT !.tool = r.tool],
                                     v, <<"resolve">> \o b.steps)
                        ELSE [resp |-> ErrResp(request, NoError), cm |-> v.cm, rl |-> v.rl,
                              trace |-> <<>>,
                              pending |-> [active |-> TRUE, request |-> request,
                                           tool |-> r.tool,
                                           validatedArgs |-> b.validatedArgs,
                                           trace |-> v.trace \o <<"resolve">> \o b.steps]]

\* The call-tool handler after the await, answering without the handler's content.
CallToolSettledNoContent(pending, outcome, t) ==
  IF outcome.err = NoError
  THEN [OkResp(pending.request,
          [meta |-> [toolName |-> pending.tool.name, timestamp |-> t, success |-> TRUE],
           content |-> <<>>])
        EXCEPT !.tool = pending.tool]
  ELSE [ErrResp(pending.request, ToolError(outcome.err)) EXCEPT !.tool = pending.tool]

\* The call-tool handler after the await: the response, or the catch block.
CallToolSettled(pending, outcome, t) ==
  IF outcome.err = NoError
  THEN [OkResp(pending.request,
          [meta |-> [toolName |-> pending.request.params.name.v, timestamp |-> t,
                     success |-> TRUE],
           content |-> outcome.content])
        EXCEPT !.tool = pending.tool]
  ELSE [ErrResp(pending.request, ToolError(outcome.err)) EXCEPT !.tool = pending.tool]

(***************************************************************************)
(* stop(): its statements in order, and the ones whose failure is caught.   *)
(* An invocation runs synchronously up to its next await.                   *)
(***************************************************************************)
StopProgramMonitorLast == <<"transport", "listener", "server", "monitor", "report">>

StopProgram == <<"monitor", "transport", "listener", "server", "report">>

StopCaught == {"transport", "listener"}

\* An invocation of stop(): who called it, where it is, the statements it ran (log) and
\* the awaited closes that failed (failed), the last two as history.
NewStop(cause) ==
  [cause |-> cause, status |-> "running", ip |-> 1, log |-> <<>>, failed |-> {}]

RECURSIVE RunStop(_, _)
RunStop(i, s) ==
  IF i > Len(StopProgram) THEN [s EXCEPT !.inv.status = "resolved", !.inv.ip = i]
  ELSE LET step == StopProgram[i]
           logged == [s EXCEPT !.inv.log = Append(@, step)]
           await == [logged EXCEPT !.inv.status = "awaiting", !.inv.ip = i]
       IN  CASE step = "monitor" -> RunStop(i + 1, [logged EXCEPT !.cm.running = FALSE])
             [] step = "transport" -> IF s.at # "none" THEN await ELSE RunStop(i + 1, s)
             [] step = "listener" ->
                  IF s.hs THEN [await EXCEPT !.wire.listening = FALSE] ELSE RunStop(i + 1, s)
             [] step = "server" -> await
             [] OTHER -> RunStop(i + 1, logged)

\* The awaited close of statement s.inv.ip settled, with success or with an error.
ResumeStop(s0, ok) ==
  LET i == s0.inv.ip
      step == StopProgram[i]
      s == IF ok THEN s0 ELSE [s0 EXCEPT !.inv.failed = @ \cup {step}]
  IN  IF ~ok /\ step \notin StopCaught THEN [s EXCEPT !.inv.status = "rejected"]
      ELSE CASE step = "transport" ->
                  RunStop(i + 1, [s EXCEPT !.at = "none",
                                           !.wire.connected = IF ok THEN FALSE ELSE @])
             [] step = "listener" -> RunStop(i + 1, [s EXCEPT !.hs = FALSE])
             [] OTHER -> RunStop(i + 1, [s EXCEPT !.wire.connected = FALSE])

StopState(inv) ==
  [cm |-> connectionMonitor, at |-> activeTransport, hs |-> httpServer, wire |-> wire,
   inv |-> inv]

Settled(inv) == inv.status \in {"resolved", "rejected"}

\* The effect of one run of stop() code on the server; main's signal handler exits
\* the process when its stop() settles.
StopEffect(s, k) ==
  /\ connectionMonitor' = s.cm
  /\ activeTransport' = s.at
  /\ httpServer' = s.hs
  /\ wire' = s.wire
  /\ stops' = IF k > Len(stops) THEN Append(stops, s.inv) ELSE [stops EXCEPT ![k] = s.inv]
  /\ exited' = (exited \/ (s.inv.cause = "signal" /\ Settled(s.inv)))

Threshold(cm) == IF cm.initialized THEN IdleTimeout ELSE StartupGrace

Overdue == connectionMonitor.running /\ now - connectionMonitor.lastActivity > Threshold(connectionMonitor)

(***************************************************************************)
(* The requests a client can send.                                          *)
(***************************************************************************)
NoParams == [name |-> S(""), arguments |-> Undefined, uri |-> <<"", "">>]

NoRequest == [method |-> "none", size |-> 0, params |-> NoParams]

NoResp == ErrResp(NoRequest, NoError)

Sizes == {MaxMessageSize, MaxMessageSize + 1}

ToolNameInputs == {S("echo"), S("Echo"), S("read-note"), S("nope"), S("")}

ArgInputs ==
  {Undefined, Obj(<<>>), Obj([message |-> S("hi")]), Obj([message |-> N("42")]),
   Obj([message |-> S("hi"), extra |-> S("x")]),
   Obj([vault |-> S("test"), filename |-> S("a.md")]), Obj([vault |-> N("1")])}

UriInputs ==
  {<<VaultScheme, "test">>, <<VaultScheme, "other">>, <<"file://", "/etc/passwd">>,
   <<"OBSIDIAN-VAULT://", "test">>, <<"", "">>}

Request(method, size, params) == [method |-> method, size |-> size, params |-> params]

(***************************************************************************)
(* main(): the command line and the filesystem the vault paths refer to.    *)
(* A command-line argument is [dd, text, hasInline, inline]: dd says that   *)
(* it starts with "--", text is the argument up to its first "=", inline    *)
(* what follows the "=".                                                    *)
(***************************************************************************)
MAX_VAULTS == 10

NumStr(n) == <<"1", "2", "3", "4", "5", "6", "7", "8", "9", "10", "11", "12">>[n]

Word(text) == [dd |-> FALSE, text |-> text, hasInline |-> FALSE, inline |-> ""]

Flag(text) == [dd |-> TRUE, text |-> text, hasInline |-> FALSE, inline |-> ""]

FlagWith(text, value) == [dd |-> TRUE, text |-> text, hasInline |-> TRUE, inline |-> value]

\* What the filesystem holds at a path: the absolute path it resolves to (as its
\* segments), whether its characters are legal, the findings of the local-filesystem
\* and suspicious-location checks ("" for none), the outcome of fs.stat, of
\* fs.access(R_OK | W_OK), of fs.stat on .obsidian and of fs.access on app.json.
Dir(abs) ==
  [abs |-> abs, chars |-> TRUE, local |-> "", suspicious |-> "", stat |-> "dir",
   rw |-> TRUE, marker |-> "dir", app |-> "ok"]

\* A path nothing exists at.
Absent(abs) ==
  [Dir(abs) EXCEPT !.stat = "ENOENT", !.rw = FALSE, !.marker = "ENOENT", !.app = "ENOENT"]

ManyPaths ==
  <<"/many/1", "/many/2", "/many/3", "/many/4", "/many/5", "/many/6", "/many/7",
    "/many/8", "/many/9", "/many/10", "/many/11">>

Fs(text) ==
  CASE text = "/v/Work"     -> Dir(<<"v", "Work">>)
    [] text = "/v/Work/sub" -> Dir(<<"v", "Work", "sub">>)
    [] text = "/w/work"     -> Dir(<<"w", "work">>)
    [] text = "/w/work-1"   -> Dir(<<"w", "work-1">>)
    [] text = "/v/n<o"      -> [Dir(<<"v", "n<o">>) EXCEPT !.chars = FALSE]
    [] text = "/v/gone"     -> Absent(<<"v", "gone">>)
    [] text = "/v/plain"    -> [Dir(<<"v", "plain">>) EXCEPT !.marker = "ENOENT", !.app = "ENOENT"]
    [] text = "/v/odd"      -> [Dir(<<"v", "odd">>) EXCEPT !.marker = "file", !.app = "ENOTDIR"]
    [] text = "/v/locked"   -> [Dir(<<"v", "locked">>) EXCEPT !.marker = "EACCES", !.app = "EACCES"]
    [] text = "/mnt/share"  -> [Dir(<<"mnt", "share">>) EXCEPT !.local = "network mount"]
    [] text = "/tmp/x"      -> [Dir(<<"tmp", "x">>) EXCEPT !.suspicious = "system directory"]
    [] \E i \in DOMAIN ManyPaths : text = ManyPaths[i] ->
         Dir(<<"many", NumStr(CHOOSE i \in DOMAIN ManyPaths : text = ManyPaths[i])>>)
    [] OTHER                -> Absent(<<"cwd", text>>)

DefaultCli ==
  [transport |-> "stdio", host |-> "0.0.0.0", port |-> 8080, httpPath |-> "/mcp",
   allowedOrigins |-> <<>>, allowedHosts |-> <<>>, enableDnsRebindingProtection |-> FALSE]

\* process.stdout and process.stderr hold lines; a JSON line is the envelope written
\* by writeJsonResponse.
JsonLine(code, message) ==
  [kind |-> "json", jsonrpc |-> "2.0", error |-> [code |-> code, message |-> message],
   id |-> "null"]

TextLine(message) ==
  [kind |-> "text", jsonrpc |-> "", error |-> [code |-> "", message |-> message], id |-> ""]

HelpMessage == Line(<<"Obsidian MCP Server - Multi-vault Support">>)

\* console.error(`Error: ${message}`); writeJsonResponse({...}); process.exit(1),
\* without the JSON line.
exitWithCliErrorSilent(p, message) ==
  [p EXCEPT !.stderr = Append(@, TextLine(message)), !.exitCode = 1, !.pc = "exited"]

\* exitWithCliError(message)
exitWithCliError(p, message) ==
  [p EXCEPT !.stderr = Append(@, TextLine(message)),
            !.stdout = Append(@, JsonLine("InvalidRequest", message)),
            !.exitCode = 1, !.pc = "exited"]

\* The same three statements where main spells them out, with the code it names.
FatalExit(p, code, message) ==
  [p EXCEPT !.stderr = Append(@, TextLine(message)),
            !.stdout = Append(@, JsonLine(code, message)),
            !.exitCode = 1, !.pc = "exited"]

\* value.toLowerCase(), Number(value) and value.startsWith("/") on the values used.
LowerCase(value) == IF value = "HTTP" THEN "http" ELSE value

ToNumber(value) ==
  CASE value = "8080" -> 8080 [] value = "0" -> 0 [] value = "70000" -> 70000
    [] OTHER -> -1

WithSlash(value) ==
  CASE value = "mcp" -> "/mcp" [] value = "http" -> "/http" [] value = "HTTP" -> "/HTTP"
    [] value = "0" -> "/0" [] value = "8080" -> "/8080" [] value = "70000" -> "/70000"
    [] value = "-h" -> "/-h" [] OTHER -> value

ValidPort(n) == n >= 1 /\ n <= 65535

\* The for loop over rawArgs, from index i on.
RECURSIVE ParseArgs(_, _, _)
ParseArgs(rawArgs, i, p) ==
  IF i > Len(rawArgs) \/ p.pc = "exited" THEN p
  ELSE
    LET arg == rawArgs[i]
        bare == ~arg.hasInline
    IN
    IF arg.dd /\ arg.text = "--" /\ bare
    THEN [p EXCEPT !.vaultArgs = @ \o [k \in 1..(Len(rawArgs) - i) |-> rawArgs[i + k].text]]
    ELSE IF ~arg.dd \/ (arg.text = "--help" /\ bare)
    THEN IF (arg.text = "--help" \/ arg.text = "-h") /\ bare
         THEN [p EXCEPT !.stdout = Append(@, TextLine(HelpMessage)), !.exitCode = 0,
                        !.pc = "exited"]
         ELSE ParseArgs(rawArgs, i + 1, [p EXCEPT !.vaultArgs = Append(@, arg.text)])
    ELSE
      LET hasNext == i + 1 <= Len(rawArgs) /\ ~rawArgs[i + 1].dd
          missing == ~arg.hasInline /\ ~hasNext
          value   == IF arg.hasInline THEN arg.inline
                     ELSE IF hasNext THEN rawArgs[i + 1].text ELSE ""
          j       == IF arg.hasInline \/ ~hasNext THEN i + 1 ELSE i + 2
          Missing == exitWithCliError(p, Line(<<"Missing value for ", arg.text>>))
          Store(q) == IF missing THEN Missing ELSE ParseArgs(rawArgs, j, q)
      IN
      CASE arg.text = "--transport" ->
             IF missing THEN Missing
             ELSE IF LowerCase(value) \notin {"stdio", "http"}
             THEN exitWithCliError(p, Line(<<"Invalid transport ", LowerCase(value)>>))
             ELSE ParseArgs(rawArgs, j, [p EXCEPT !.cli.transport = LowerCase(value)])
        [] arg.text = "--host" -> Store([p EXCEPT !.cli.host = value])
        [] arg.text = "--port" ->
             IF missing THEN Missing
             ELSE IF ~ValidPort(ToNumber(value))
             THEN exitWithCliError(p, Line(<<"Invalid port ", value>>))
             ELSE ParseArgs(rawArgs, j, [p EXCEPT !.cli.port = ToNumber(value)])
        [] arg.text = "--http-path" -> Store([p EXCEPT !.cli.httpPath = WithSlash(value)])
        [] arg.text = "--allowed-origin" ->
             Store([p EXCEPT !.cli.allowedOrigins = Append(@, value)])
        [] arg.text = "--allowed-host" ->
             Store([p EXCEPT !.cli.allowedHosts = Append(@, value)])
        [] arg.text = "--enable-dns-rebinding-protection" ->
             ParseArgs(rawArgs, i + 1, [p EXCEPT !.cli.enableDnsRebindingProtection = TRUE])
        [] OTHER -> exitWithCliError(p, Line(<<"Unknown option: ", arg.text>>))

(***************************************************************************)
(* main(): validation of one vault path. The mapper of vaultArgs.map runs   *)
(* to `await Promise.all([checkSuspiciousPath, checkLocalPath])`, then to   *)
(* its fs calls (stat, access, stat of .obsidian, access of app.json), then *)
(* returns the absolute path. The four fs calls of one path are taken as    *)
(* one step: they read that path only.                                      *)
(***************************************************************************)
\* The synchronous start of the mapper: expand, normalize, resolve, call both checks.
AbsolutePath(vaultPath) == IF vaultPath = "/v/Work/" THEN "/v/Work" ELSE vaultPath

MapperBegin(vaultPath) ==
  [pc |-> "checks", arg |-> vaultPath, abs |-> AbsolutePath(vaultPath),
   log |-> <<"checkSuspiciousPath", "checkLocalPath">>]

\* Both checks resolved: the local-filesystem finding is looked at first.
MapperChecked(p, i) ==
  LET m == p.mappers[i]
      f == Fs(m.abs)
  IN  IF f.local # ""
      THEN FatalExit(p, "InvalidRequest", Line(<<"Invalid vault path (", f.local, "): ", m.arg>>))
      ELSE IF f.suspicious # ""
      THEN FatalExit(p, "InvalidRequest",
                     Line(<<"Invalid vault path (", f.suspicious, "): ", m.arg>>))
      ELSE [p EXCEPT !.mappers[i].pc = "fs"]

\* The fs calls of the mapper, in order, each with the branch it ends in.
MapperFs(p, i) ==
  LET m == p.mappers[i]
      f == Fs(m.abs)
      Logged(ops) == [p EXCEPT !.mappers[i].log = @ \o ops]
      missing == Line(<<"Not a valid Obsidian vault (", m.arg, ")">>)
  IN
  CASE f.stat = "ENOENT" ->
         FatalExit(Logged(<<"stat">>), "InvalidRequest",
                   Line(<<"Vault directory does not exist: ", m.arg>>))
    [] f.stat = "EACCES" ->
         FatalExit(Logged(<<"stat">>), "InvalidRequest",
                   Line(<<"No permission to access vault directory: ", m.arg>>))
    [] f.stat = "file" ->
         FatalExit(Logged(<<"stat">>), "InvalidRequest",
                   Line(<<"Vault path must be a directory: ", m.arg>>))
    [] f.stat = "dir" /\ ~f.rw ->
         FatalExit(Logged(<<"stat", "access">>), "InvalidRequest",
                   Line(<<"No permission to access vault directory: ", m.arg>>))
    [] f.stat = "dir" /\ f.rw /\ f.marker = "file" ->
         FatalExit(Logged(<<"stat", "access", "stat .obsidian">>), "InvalidRequest",
                   Line(<<"Invalid Obsidian vault configuration in ", m.arg>>))
    [] f.stat = "dir" /\ f.rw /\ f.marker = "ENOENT" ->
         FatalExit(Logged(<<"stat", "access", "stat .obsidian">>), "InvalidRequest", missing)
    [] f.stat = "dir" /\ f.rw /\ f.marker \notin {"dir", "file", "ENOENT"} ->
         FatalExit(Logged(<<"stat", "access", "stat .obsidian">>), "InternalError",
                   Line(<<"Error checking Obsidian configuration in ", m.arg, ": ", f.marker>>))
    [] f.stat = "dir" /\ f.rw /\ f.marker = "dir" /\ f.app = "ENOENT" ->
         FatalExit(Logged(<<"stat", "access", "stat .obsidian", "access app.json">>),
                   "InvalidRequest", missing)
    [] f.stat = "dir" /\ f.rw /\ f.marker = "dir" /\ f.app \notin {"ok", "ENOENT"} ->
         FatalExit(Logged(<<"stat", "access", "stat .obsidian", "access app.json">>),
                   "InternalError",
                   Line(<<"Error checking Obsidian configuration in ", m.arg, ": ", f.app>>))
    [] OTHER ->
         [p EXCEPT !.mappers[i].pc = "done",
                   !.mappers[i].log = @ \o <<"stat", "access", "stat .obsidian",
                                             "access app.json">>]

\* checkPathOverlap(paths): throws when two paths are equal or one contains the other.
IsPrefix(a, b) == Len(a) <= Len(b) /\ SubSeq(b, 1, Len(a)) = a

Overlapping(paths) ==
  \E i, j \in DOMAIN paths : i # j /\ IsPrefix(Fs(paths[i]).abs, Fs(paths[j]).abs)

checkPathOverlap(paths) ==
  IF Overlapping(paths)
  THEN McpError("InvalidRequest", Line(<<"Vault paths cannot overlap">>))
  ELSE NoError

\* sanitizeVaultName(path.basename(vaultPath)): lowercase, runs of other characters
\* become one hyphen. A name is the sequence of its hyphen-separated parts.
sanitizeVaultName(rawName) ==
  CASE rawName = "Work"   -> <<"work">>
    [] rawName = "work-1" -> <<"work", "1">>
    [] rawName = "n<o"    -> <<"n", "o">>
    [] OTHER              -> <<rawName>>

VaultConfigs(normalizedPaths) ==
  [i \in DOMAIN normalizedPaths |->
     LET segments == Fs(normalizedPaths[i]).abs
     IN  [name |-> sanitizeVaultName(segments[Len(segments)]), path |-> normalizedPaths[i]]]

(***************************************************************************)
(* main(): unique vault names (the forEach that fills uniqueVaults).        *)
(***************************************************************************)
\* The while loop: `${vault.name}-${counter}` with counter = 1, 2, ... until unused.
RECURSIVE NextFree(_, _, _)
NextFree(name, counter, usedNames) ==
  IF (name \o <<NumStr(counter)>>) \in usedNames
  THEN NextFree(name, counter + 1, usedNames)
  ELSE name \o <<NumStr(counter)>>

\* The name taken without the while loop: always `${vault.name}-1`.
UniqueNameOnce(name, usedNames) ==
  IF name \in usedNames THEN name \o <<NumStr(1)>> ELSE name

UniqueName(name, usedNames) ==
  IF name \in usedNames THEN NextFree(name, 1, usedNames) ELSE name

\* One iteration of vaults.forEach.
UniqueStep(acc, vault) ==
  LET uniqueName == UniqueName(vault.name, acc.usedNames)
  IN  [usedNames |-> acc.usedNames \cup {uniqueName},
       uniqueVaults |-> Append(acc.uniqueVaults, [name |-> uniqueName, path |-> vault.path])]

RECURSIVE UniqueVaults(_, _)
UniqueVaults(acc, rest) ==
  IF rest = <<>> THEN acc.uniqueVaults ELSE UniqueVaults(UniqueStep(acc, Head(rest)), Tail(rest))

(***************************************************************************)
(* new ObsidianServer(vaultConfigs). A configuration is [name, path]; the   *)
(* marker directory of the path is looked up in the filesystem.             *)
(***************************************************************************)
\* The body of vaultConfigs.forEach for one configuration: the error it throws, if any.
MarkerError(config) ==
  LET text == config.path
      m    == Fs(text).marker
  IN  CASE m = "dir"    -> NoError
        [] m = "ENOENT" ->
             McpError("InvalidRequest",
                      Line(<<"Invalid Obsidian vault at ", text, ": Missing .obsidian directory">>))
        [] m = "file"   ->
             McpError("InvalidRequest",
                      Line(<<"Error accessing vault at ", text, ": Invalid Obsidian vault at ",
                             text, ": .obsidian exists but is not a directory">>))
        [] OTHER        ->
             McpError("InvalidRequest", Line(<<"Error accessing vault at ", text, ": ", m>>))

AfterVaults ==
  <<"new Server", "new RateLimiter", "new ConnectionMonitor", "registerPrompt",
    "setupHandlers", "connectionMonitor.start", "updateActivity", "onerror">>

RECURSIVE InitVaults(_, _, _)
InitVaults(configs, m, steps) ==
  IF configs = <<>> THEN [error |-> NoError, vaults |-> m, steps |-> steps]
  ELSE LET config == Head(configs)
           e == MarkerError(config)
       IN  IF e.kind # "none"
           THEN [error |-> e, vaults |-> m, steps |-> Append(steps, "statSync")]
           ELSE InitVaults(Tail(configs), MapSet(m, config.name, config.path),
                           steps \o <<"statSync", "vaults.set">>)

\* The constructor with the watchdog and the handlers set up before the vaults.
ConstructorEager(vaultConfigs) ==
  LET r == InitVaults(vaultConfigs, <<>>, AfterVaults)
  IN  IF vaultConfigs = <<>>
      THEN [error |-> McpError("InvalidRequest", Line(<<"No vault configurations provided">>)),
            vaults |-> <<>>, steps |-> AfterVaults]
      ELSE r

Constructor(vaultConfigs) ==
  IF vaultConfigs = <<>>
  THEN [error |-> McpError("InvalidRequest", Line(<<"No vault configurations provided">>)),
        vaults |-> <<>>, steps |-> <<>>]
  ELSE LET r == InitVaults(vaultConfigs, <<>>, <<>>)
       IN  IF r.error.kind # "none" THEN r ELSE [r EXCEPT !.steps = @ \o AfterVaults]

(***************************************************************************)
(* start(): the HTTP request listener. A request is [method, url] with the  *)
(* url as [segments, trailing, query]; new URL(req.url, base).pathname      *)
(* drops the query and resolves "." and ".." segments.                      *)
(***************************************************************************)
RECURSIVE RemoveDots(_, _)
RemoveDots(segments, out) ==
  IF segments = <<>> THEN out
  ELSE IF Head(segments) = "." THEN RemoveDots(Tail(segments), out)
  ELSE IF Head(segments) = ".."
  THEN RemoveDots(Tail(segments), IF out = <<>> THEN out ELSE SubSeq(out, 1, Len(out) - 1))
  ELSE RemoveDots(Tail(segments), Append(out, Head(segments)))

Pathname(url) == [segments |-> RemoveDots(url.segments, <<>>), trailing |-> url.trailing]

ConfigPath(segments) == [segments |-> segments, trailing |-> FALSE]

\* What transport.handleRequest(req, res) can do with a request handed to it: answer
\* it, throw before it wrote any header, or throw after it began the response.
TransportOutcomes == {"200", "400", "throws", "throwsLate"}

\* The response of the listener to one request, with what the listener did: whether
\* it handed the request to the transport, whether the transport threw, whether the
\* headers were already sent then, whether the error was logged, whether it left
\* the listener, and the Allow header when one is set.
Response(status, body) ==
  [status |-> status, body |-> body, handled |-> FALSE, threw |-> FALSE,
   headersSent |-> FALSE, logged |-> FALSE, propagated |-> FALSE, allow |-> {}]

\* The listener without its try/catch: what the transport throws leaves the listener.
RequestListenerNoCatch(req, config, outcome) ==
  IF Pathname(req.url) # config.path
  THEN Response("404", "Not Found")
  ELSE IF req.method = "OPTIONS"
  THEN [Response("204", "") EXCEPT !.allow = {"GET", "POST", "DELETE", "OPTIONS"}]
  ELSE IF outcome = "throws"
  THEN [Response("none", "") EXCEPT !.handled = TRUE, !.threw = TRUE, !.propagated = TRUE]
  ELSE IF outcome = "throwsLate"
  THEN [Response("200", "transport") EXCEPT !.handled = TRUE, !.threw = TRUE,
                                            !.headersSent = TRUE, !.propagated = TRUE]
  ELSE [Response(outcome, "transport") EXCEPT !.handled = TRUE, !.headersSent = TRUE]

\* A listener that serves every path as the configured one.
RequestListenerAnyPath(req, config, outcome) ==
  IF req.method = "OPTIONS"
  THEN [Response("204", "") EXCEPT !.allow = {"GET", "POST", "DELETE", "OPTIONS"}]
  ELSE IF outcome = "throws"
  THEN [Response("500", "Internal Server Error")
          EXCEPT !.handled = TRUE, !.threw = TRUE, !.logged = TRUE]
  ELSE IF outcome = "throwsLate"
  THEN [Response("200", "transport") EXCEPT !.handled = TRUE, !.threw = TRUE,
                                            !.headersSent = TRUE, !.logged = TRUE]
  ELSE [Response(outcome, "transport") EXCEPT !.handled = TRUE, !.headersSent = TRUE]

RequestListener(req, config, outcome) ==
  IF Pathname(req.url) # config.path
  THEN Response("404", "Not Found")
  ELSE IF req.method = "OPTIONS"
  THEN [Response("204", "") EXCEPT !.allow = {"GET", "POST", "DELETE", "OPTIONS"}]
  ELSE IF outcome = "throws"
  THEN [Response("500", "Internal Server Error")
          EXCEPT !.handled = TRUE, !.threw = TRUE, !.logged = TRUE]
  ELSE IF outcome = "throwsLate"
  THEN [Response("200", "transport") EXCEPT !.handled = TRUE, !.threw = TRUE,
                                            !.headersSent = TRUE, !.logged = TRUE]
  ELSE [Response(outcome, "transport") EXCEPT !.handled = TRUE, !.headersSent = TRUE]

Url(segments, trailing, query) == [segments |-> segments, trailing |-> trailing, query |-> query]

UrlInputs ==
  {Url(<<"mcp">>, FALSE, ""), Url(<<"mcp">>, FALSE, "x=1"), Url(<<"mcp">>, TRUE, ""),
   Url(<<"mcp", "mcp">>, FALSE, ""), Url(<<"mcp", "mcp", "mcp">>, FALSE, ""),
   Url(<<"mcp", "list_actions">>, FALSE, ""), Url(<<"mcp", "mcp", "list_actions">>, FALSE, ""),
   Url(<<"other", "..", "mcp">>, FALSE, ""), Url(<<"other">>, FALSE, ""), Url(<<>>, FALSE, "")}

HttpMethods == {"GET", "POST", "OPTIONS", "DELETE", "PUT"}

NoHttp == [config |-> [path |-> ConfigPath(<<"mcp">>)], exchanges |-> <<>>]

(***************************************************************************)
(* Two servers side by side: each has its own limiter and clock and keeps,  *)
(* per method, the decisions it gave; the methods that one of them received *)
(* without the other are remembered, and whether a call that both received  *)
(* came from two different sessions.                                        *)
(***************************************************************************)
Sessions == {"session-a", "session-b"}

PairMethods == {"tools/list", "prompts/list"}

NoRun ==
  [cm |-> [lastActivity |-> 0, running |-> TRUE, initialized |-> FALSE],
   rl |-> [m \in Methods |-> <<>>],
   decisions |-> [m \in PairMethods |-> <<>>]]

NoPair == [left |-> NoRun, right |-> NoRun, onlyOne |-> {}, mixed |-> FALSE, calls |-> 0]

\* The handler the protocol server runs for a request without parameters.
Dispatch(request, ts, vs, cm, rl, t) ==
  IF request.method = "tools/list"
  THEN ListToolsHandler(request, ts, vs, cm, rl, t)
  ELSE ListPromptsHandler(request, ts, vs, cm, rl, t)

\* One server of the pair receives a request: what it answers and what it keeps.
Receive(run, request, ts, vs, t) ==
  LET o == Dispatch(request, ts, vs, run.cm, run.rl, t)
  IN  [cm |-> o.cm, rl |-> o.rl,
       decisions |-> [run.decisions EXCEPT ![request.method] = Append(@, o.resp.error)]]

(***************************************************************************)
(* The process running main().                                              *)
(***************************************************************************)
NoProc ==
  [pc |-> "none", argv |-> <<>>, cli |-> DefaultCli, vaultArgs |-> <<>>, mappers |-> <<>>,
   normalizedPaths |-> <<>>, vaults |-> <<>>, usedNames |-> {}, uniqueVaults |-> <<>>,
   steps |-> <<>>, error |-> NoError, stdout |-> <<>>, stderr |-> <<>>, exitCode |-> -1]

\* The tools main registers (tools/*), by the one this model describes.
MainTools == <<ReadNoteTool>>

\* catch (error) of main's last try block.
MainCatch(p, error) ==
  LET mcpError == IF error.kind = "McpError" THEN error
                  ELSE McpError("InternalError", error.message)
  IN  [p EXCEPT !.stderr = @ \o <<TextLine(error.message), TextLine(mcpError.message)>>,
                !.stdout = Append(@, JsonLine(mcpError.code, mcpError.message)),
                !.error = error, !.exitCode = 1, !.pc = "exited"]

\* From rawArgs to `await Promise.all(vaultArgs.map(...))`.
MainParsed(p0) ==
  LET p == ParseArgs(p0.argv, 1, p0)
  IN  IF p.pc = "exited" THEN p
      ELSE IF p.vaultArgs = <<>>
      THEN [p EXCEPT !.stderr = Append(@, TextLine(HelpMessage)),
                     !.stdout = Append(@, JsonLine("InvalidRequest",
                                                   Line(<<"No vault paths provided.">>))),
                     !.exitCode = 1, !.pc = "exited"]
      ELSE [p EXCEPT !.pc = "validating",
                     !.mappers = [i \in DOMAIN p.vaultArgs |-> MapperBegin(p.vaultArgs[i])]]

\* From the resolved Promise.all to the construction of the server.
MainValidated(p0) ==
  LET paths == [i \in DOMAIN p0.mappers |-> p0.mappers[i].abs]
      p     == [p0 EXCEPT !.normalizedPaths = paths]
      overlap == checkPathOverlap(paths)
      configs == VaultConfigs(paths)
      unique  == UniqueVaults([usedNames |-> {}, uniqueVaults |-> <<>>], configs)
  IN  IF Len(p.vaultArgs) > MAX_VAULTS
      THEN FatalExit(p, "InvalidRequest",
                     Line(<<"Too many vaults specified (", NumStr(Len(p.vaultArgs)), ")">>))
      ELSE IF overlap.kind # "none"
      THEN FatalExit(p, "InvalidRequest", overlap.message)
      ELSE [p EXCEPT !.vaults = configs, !.uniqueVaults = unique,
                     !.usedNames = {unique[i].name : i \in DOMAIN unique},
                     !.stderr = Append(@, TextLine(Line(<<"Successfully configured vaults:">>))),
                     !.pc = "constructing"]

(***************************************************************************)
(* Initial state: a constructed server (one vault, the monitor started and  *)
(* the activity updated once), no tool registered, start() not called.      *)
(***************************************************************************)
Init ==
  /\ tools = <<>>
  /\ vaults = <<[key |-> "test", value |-> "/vaults/test"]>>
  /\ registered = <<>>
  /\ regThrew = FALSE
  /\ now = 0
  /\ connectionMonitor = [lastActivity |-> 0, running |-> TRUE, initialized |-> FALSE]
  /\ rateLimiter = [m \in Methods |-> <<>>]
  /\ lastSizeOk = 0
  /\ served = 0
  /\ inflight = <<>>
  /\ resp = NoResp
  /\ trace = <<>>
  /\ startState = [phase |-> "new", type |-> "none"]
  /\ wire = [connected |-> FALSE, listening |-> FALSE, ended |-> FALSE]
  /\ activeTransport = "none"
  /\ httpServer = FALSE
  /\ stops = <<>>
  /\ isShuttingDown = FALSE
  /\ exited = FALSE
  /\ shutdownCalls = 0
  /\ firedIdle = [sinceRequest |-> 0, grace |-> 0]
  /\ proc = NoProc
  /\ http = NoHttp
  /\ pair = NoPair

(***************************************************************************)
(* Actions.                                                                 *)
(***************************************************************************)
\* server.registerTool(tool), called between construction and start().
RegisterTool ==
  /\ ~exited
  /\ startState.phase = "new"
  /\ Len(registered) < MaxReg
  /\ \E tool \in ToolPool :
       LET r == registerTool(tools, tool)
       IN  /\ tools' = r.tools
           /\ regThrew' = r.threw
           /\ registered' = Append(registered, tool)
  /\ UNCHANGED <<vaults, admVars, callVars, lifeVars, mainVars>>

\* A client can reach the server: the transport is connected and, over HTTP, the
\* listener is bound.
CanReceive ==
  /\ ~exited
  /\ served < MaxRequests
  /\ wire.connected
  /\ ~wire.ended
  /\ startState.type = "http" => wire.listening

\* The state a handler that ran to its end leaves.
Completed(request, o) ==
  /\ connectionMonitor' = o.cm
  /\ rateLimiter' = o.rl
  /\ lastSizeOk' = IF request.size <= MaxMessageSize THEN now ELSE lastSizeOk
  /\ served' = served + 1
  /\ resp' = o.resp
  /\ trace' = o.trace
  /\ UNCHANGED <<now, inflight, regVars, mainVars, lifeVars>>

ListPromptsRequest ==
  /\ CanReceive
  /\ \E size \in Sizes :
       LET request == Request("prompts/list", size, NoParams)
       IN  Completed(request, ListPromptsHandler(request, tools, vaults, connectionMonitor,
                                                 rateLimiter, now))

GetPromptRequest ==
  /\ CanReceive
  /\ \E size \in Sizes, name \in {S("list-vaults"), S("nope"), S("")} :
       LET request == Request("prompts/get", size, [NoParams EXCEPT !.name = name])
       IN  Completed(request, GetPromptHandler(request, tools, vaults, connectionMonitor,
                                               rateLimiter, now))

ListToolsRequest ==
  /\ CanReceive
  /\ \E size \in Sizes :
       LET request == Request("tools/list", size, NoParams)
       IN  Completed(request, ListToolsHandler(request, tools, vaults, connectionMonitor,
                                               rateLimiter, now))

ListResourcesRequest ==
  /\ CanReceive
  /\ \E size \in Sizes :
       LET request == Request("resources/list", size, NoParams)
       IN  Completed(request, ListResourcesHandler(request, tools, vaults, connectionMonitor,
                                                   rateLimiter, now))

ReadResourceRequest ==
  /\ CanReceive
  /\ \E size \in Sizes, uri \in UriInputs :
       LET request == Request("resources/read", size, [NoParams EXCEPT !.uri = uri])
       IN  Completed(request, ReadResourceHandler(request, tools, vaults, connectionMonitor,
                                                  rateLimiter, now))

\* A call-tool request up to its end or to `await tool.handler(validatedArgs)`.
CallToolRequest ==
  /\ CanReceive
  /\ Len(inflight) < MaxInFlight
  /\ \E size \in Sizes, name \in ToolNameInputs, args \in ArgInputs :
       LET request == Request("tools/call", size,
                              [NoParams EXCEPT !.name = name, !.arguments = args])
           o == CallToolHandler(request, tools, vaults, connectionMonitor, rateLimiter, now)
       IN  /\ connectionMonitor' = o.cm
           /\ rateLimiter' = o.rl
           /\ lastSizeOk' = IF request.size <= MaxMessageSize THEN now ELSE lastSizeOk
           /\ served' = served + 1
           /\ IF o.pending.active
              THEN /\ inflight' = Append(inflight, o.pending)
                   /\ UNCHANGED <<resp, trace>>
              ELSE /\ resp' = o.resp
                   /\ trace' = o.trace
                   /\ UNCHANGED inflight
  /\ UNCHANGED <<now, regVars, mainVars, lifeVars>>

\* The handler of a suspended call settles and the call-tool handler finishes.
CallToolSettle ==
  /\ ~exited
  /\ \E k \in DOMAIN inflight :
       \E outcome \in HandlerOutcomes(inflight[k].tool.handler, inflight[k].validatedArgs) :
         /\ resp' = [CallToolSettled(inflight[k], outcome, now)
                       EXCEPT !.thrown = outcome.err, !.returned = outcome.content]
         /\ trace' = inflight[k].trace
         /\ inflight' = [i \in 1..(Len(inflight) - 1) |->
                           IF i < k THEN inflight[i] ELSE inflight[i + 1]]
  /\ UNCHANGED <<admVars, regVars, mainVars, lifeVars>>

\* Time passes; a due watchdog fires before it passes further.
TickTo(limit) ==
  /\ ~exited
  /\ now < limit
  /\ ~Overdue
  /\ now' = now + 1
  /\ UNCHANGED <<connectionMonitor, rateLimiter, lastSizeOk, served, regVars, mainVars, callVars,
                 lifeVars>>

Tick == TickTo(MaxTime)

\* start(config), to its first await (server.connect).
StartBegin ==
  /\ ~exited
  /\ startState.phase = "new"
  /\ \E type \in {"stdio", "http"} : startState' = [phase |-> "connecting", type |-> type]
  /\ UNCHANGED <<wire, activeTransport, httpServer, stops, isShuttingDown, exited,
                 shutdownCalls, firedIdle, regVars, mainVars, admVars, callVars>>

\* server.connect(transport) resolved: stdio is running, http goes on to listen.
StartConnected ==
  /\ ~exited
  /\ startState.phase = "connecting"
  /\ wire' = [wire EXCEPT !.connected = TRUE]
  /\ IF startState.type = "stdio"
     THEN /\ activeTransport' = "stdio"
          /\ startState' = [startState EXCEPT !.phase = "running"]
     ELSE /\ startState' = [startState EXCEPT !.phase = "listening"]
          /\ UNCHANGED activeTransport
  /\ UNCHANGED <<httpServer, stops, isShuttingDown, exited, shutdownCalls, firedIdle,
                 regVars, mainVars, admVars, callVars>>

\* server.listen called back: httpServer and activeTransport are assigned.
StartListening ==
  /\ ~exited
  /\ startState.phase = "listening"
  /\ wire' = [wire EXCEPT !.listening = TRUE]
  /\ httpServer' = TRUE
  /\ activeTransport' = "http"
  /\ startState' = [startState EXCEPT !.phase = "running"]
  /\ UNCHANGED <<stops, isShuttingDown, exited, shutdownCalls, firedIdle,
                 regVars, mainVars, admVars, callVars>>

\* server.listen failed: start() rejects, main's catch reports the error and exits.
StartFailed ==
  /\ ~exited
  /\ startState.phase = "listening"
  /\ startState' = [startState EXCEPT !.phase = "failed"]
  /\ exited' = TRUE
  /\ proc' = IF proc.pc = "starting"
             THEN MainCatch(proc, PlainError(Line(<<"listen EADDRINUSE">>)))
             ELSE proc
  /\ UNCHANGED <<wire, activeTransport, httpServer, stops, isShuttingDown,
                 shutdownCalls, firedIdle, regVars, http, pair, admVars, callVars>>

\* The watchdog finds the server idle and calls its callback, () => void this.stop().
Watchdog ==
  /\ ~exited
  /\ Overdue
  /\ Len(stops) < MaxStops
  /\ shutdownCalls' = shutdownCalls + 1
  /\ firedIdle' = [sinceRequest |-> now - lastSizeOk, grace |-> Threshold(connectionMonitor)]
  /\ StopEffect(RunStop(1, StopState(NewStop("idle"))), Len(stops) + 1)
  /\ UNCHANGED <<startState, isShuttingDown, now, rateLimiter, lastSizeOk, served, regVars, mainVars,
                 callVars>>

\* SIGINT or SIGTERM: main's shutdown(signal) calls stop() once.
Signal ==
  /\ ~exited
  /\ ~isShuttingDown
  /\ Len(stops) < MaxStops
  /\ isShuttingDown' = TRUE
  /\ StopEffect(RunStop(1, StopState(NewStop("signal"))), Len(stops) + 1)
  /\ UNCHANGED <<startState, shutdownCalls, firedIdle, now, rateLimiter, lastSizeOk,
                 served, regVars, mainVars, callVars>>

\* The peer closes the stdio channel: standard input ends and no further message
\* arrives. start() registered nothing that reacts to it (no onclose of the
\* transport or the protocol server, no listener on stdin), so nothing of the
\* server's own state changes.
ChannelClose ==
  /\ ~exited
  /\ startState = [phase |-> "running", type |-> "stdio"]
  /\ ~wire.ended
  /\ wire' = [wire EXCEPT !.ended = TRUE]
  /\ UNCHANGED <<startState, activeTransport, httpServer, stops, isShuttingDown, exited,
                 shutdownCalls, firedIdle, regVars, mainVars, admVars, callVars>>

\* The close a stop() invocation awaits settles, and stop() runs on.
StopSettle ==
  /\ ~exited
  /\ \E k \in DOMAIN stops, ok \in BOOLEAN :
       /\ stops[k].status = "awaiting"
       /\ StopEffect(ResumeStop(StopState(stops[k]), ok), k)
  /\ UNCHANGED <<startState, isShuttingDown, shutdownCalls, firedIdle, now, rateLimiter,
                 lastSizeOk, served, regVars, mainVars, callVars>>

(***************************************************************************)
(* The dispatcher: a running server with the echo tool and a note tool      *)
(* registered, serving requests.                                            *)
(***************************************************************************)
RegisterAll(ts) ==
  LET RECURSIVE Reg(_, _)
      Reg(m, rest) == IF rest = <<>> THEN m ELSE Reg(registerTool(m, Head(rest)).tools, Tail(rest))
  IN  Reg(<<>>, ts)

DispatchInit ==
  /\ tools = RegisterAll(<<EchoTool, ReadNoteTool>>)
  /\ vaults = <<[key |-> "test", value |-> "/vaults/test"]>>
  /\ registered = <<EchoTool, ReadNoteTool>>
  /\ regThrew = FALSE
  /\ now = 0
  /\ connectionMonitor = [lastActivity |-> 0, running |-> TRUE, initialized |-> FALSE]
  /\ rateLimiter = [m \in Methods |-> <<>>]
  /\ lastSizeOk = 0
  /\ served = 0
  /\ inflight = <<>>
  /\ resp = NoResp
  /\ trace = <<>>
  /\ \E type \in {"stdio", "http"} :
       /\ startState = [phase |-> "running", type |-> type]
       /\ wire = [connected |-> TRUE, listening |-> type = "http", ended |-> FALSE]
       /\ activeTransport = type
       /\ httpServer = (type = "http")
  /\ stops = <<>>
  /\ isShuttingDown = FALSE
  /\ exited = FALSE
  /\ shutdownCalls = 0
  /\ firedIdle = [sinceRequest |-> 0, grace |-> 0]
  /\ proc = NoProc
  /\ http = NoHttp
  /\ pair = NoPair

Next ==
  \/ ListPromptsRequest
  \/ GetPromptRequest
  \/ ListToolsRequest
  \/ ListResourcesRequest
  \/ ReadResourceRequest
  \/ CallToolRequest
  \/ CallToolSettle

Spec == DispatchInit /\ [][Next]_vars

(***************************************************************************)
(* The registry: registerTool calls on a constructed server, then start()   *)
(* and list-tools requests.                                                 *)
(***************************************************************************)
RegistryNext ==
  \/ RegisterTool
  \/ StartBegin
  \/ StartConnected
  \/ StartListening
  \/ ListToolsRequest

SpecRegistry == Init /\ [][RegistryNext]_vars

(***************************************************************************)
(* The lifecycle: start(), the idle watchdog, signals and stop(), with      *)
(* list-tools requests as the activity.                                     *)
(***************************************************************************)
LifeNext ==
  \/ StartBegin
  \/ StartConnected
  \/ StartListening
  \/ StartFailed
  \/ ListToolsRequest
  \/ Tick
  \/ Watchdog
  \/ Signal
  \/ StopSettle
  \/ ChannelClose

SpecLife == Init /\ [][LifeNext]_vars

(***************************************************************************)
(* main() as a process: no server exists until main constructs one.         *)
(***************************************************************************)
BoundedSeq(pool, n) == UNION {[1..k -> pool] : k \in 0..n}

NoServer ==
  /\ tools = <<>>
  /\ vaults = <<>>
  /\ registered = <<>>
  /\ regThrew = FALSE
  /\ now = 0
  /\ connectionMonitor = [lastActivity |-> 0, running |-> FALSE, initialized |-> FALSE]
  /\ rateLimiter = [m \in Methods |-> <<>>]
  /\ lastSizeOk = 0
  /\ served = 0
  /\ inflight = <<>>
  /\ resp = NoResp
  /\ trace = <<>>
  /\ startState = [phase |-> "new", type |-> "none"]
  /\ wire = [connected |-> FALSE, listening |-> FALSE, ended |-> FALSE]
  /\ activeTransport = "none"
  /\ httpServer = FALSE
  /\ stops = <<>>
  /\ isShuttingDown = FALSE
  /\ exited = FALSE
  /\ shutdownCalls = 0
  /\ firedIdle = [sinceRequest |-> 0, grace |-> 0]
  /\ http = NoHttp
  /\ pair = NoPair

TokenPool ==
  {Flag("--transport"), FlagWith("--transport", "HTTP"), FlagWith("--port", "0"),
   Flag("--bogus"), Flag("--help"), Flag("--"), Word("http"),
   Word("/v/Work"), Word("/v/Work/sub"), Word("/w/work"), Word("/v/n<o"), Word("/v/gone"),
   Word("/v/plain"), Word("/mnt/share"), Word("/tmp/x")}

ManyArgv == [i \in DOMAIN ManyPaths |-> Word(ManyPaths[i])]

MainInit ==
  /\ NoServer
  /\ \E argv \in BoundedSeq(TokenPool, MaxArgs) \cup {ManyArgv} :
       proc = [NoProc EXCEPT !.pc = "start", !.argv = argv]

\* main() from its first statement to the await of the vault validations.
MainParse ==
  /\ proc.pc = "start"
  /\ proc' = MainParsed(proc)
  /\ exited' = (proc'.pc = "exited")
  /\ UNCHANGED <<startState, wire, activeTransport, httpServer, stops, isShuttingDown,
                 shutdownCalls, firedIdle, regVars, admVars, callVars, http, pair>>

\* The two checks of one vault path resolved.
MainChecked ==
  /\ proc.pc = "validating"
  /\ \E i \in DOMAIN proc.mappers :
       /\ proc.mappers[i].pc = "checks"
       /\ proc' = MapperChecked(proc, i)
  /\ exited' = (proc'.pc = "exited")
  /\ UNCHANGED <<startState, wire, activeTransport, httpServer, stops, isShuttingDown,
                 shutdownCalls, firedIdle, regVars, admVars, callVars, http, pair>>

\* The fs calls of one vault path settled.
MainFs ==
  /\ proc.pc = "validating"
  /\ \E i \in DOMAIN proc.mappers :
       /\ proc.mappers[i].pc = "fs"
       /\ proc' = MapperFs(proc, i)
  /\ exited' = (proc'.pc = "exited")
  /\ UNCHANGED <<startState, wire, activeTransport, httpServer, stops, isShuttingDown,
                 shutdownCalls, firedIdle, regVars, admVars, callVars, http, pair>>

\* Every validation resolved: main runs on, without another await, through the vault
\* count, the overlap check, the names, the constructor and the tool registrations
\* into server.start(transportConfig).
MainConfigure ==
  /\ proc.pc = "validating"
  /\ \A i \in DOMAIN proc.mappers : proc.mappers[i].pc = "done"
  /\ LET p == MainValidated(proc)
         r == Constructor(p.uniqueVaults)
     IN  IF p.pc = "exited"
         THEN /\ proc' = p
              /\ exited' = TRUE
              /\ UNCHANGED <<regVars, connectionMonitor, startState>>
         ELSE IF r.error.kind # "none"
         THEN /\ proc' = MainCatch([p EXCEPT !.steps = r.steps], r.error)
              /\ exited' = TRUE
              /\ connectionMonitor' =
                   [connectionMonitor EXCEPT
                      !.running = "connectionMonitor.start" \in Range(r.steps)]
              /\ UNCHANGED <<regVars, startState>>
         ELSE /\ proc' = [p EXCEPT !.steps = r.steps, !.pc = "starting"]
              /\ vaults' = r.vaults
              /\ connectionMonitor' = [connectionMonitor EXCEPT !.running = TRUE,
                                                                !.lastActivity = now]
              /\ tools' = RegisterAll(MainTools)
              /\ registered' = MainTools
              /\ regThrew' = FALSE
              /\ startState' = [phase |-> "connecting", type |-> p.cli.transport]
              /\ UNCHANGED exited
  /\ UNCHANGED <<wire, activeTransport, httpServer, stops, isShuttingDown, shutdownCalls,
                 firedIdle, now, rateLimiter, lastSizeOk, served, callVars, http, pair>>

MainNext ==
  \/ MainParse
  \/ MainChecked
  \/ MainFs
  \/ MainConfigure
  \/ StartConnected
  \/ StartListening
  \/ StartFailed

SpecMain == MainInit /\ [][MainNext]_vars

(***************************************************************************)
(* The vault names: every list of sanitized names through the forEach of    *)
(* main that makes them unique, one iteration at a time.                    *)
(***************************************************************************)
NamePool == {<<"work">>, <<"work", "1">>, <<"notes">>}

NamesInit ==
  /\ NoServer
  /\ \E names \in BoundedSeq(NamePool, MaxNames) :
       proc = [NoProc EXCEPT !.pc = "names",
                             !.vaults = [i \in DOMAIN names |->
                                           [name |-> names[i], path |-> ManyPaths[i]]]]

UniqueVaultsStep ==
  /\ proc.pc = "names"
  /\ Len(proc.uniqueVaults) < Len(proc.vaults)
  /\ LET acc == UniqueStep([usedNames |-> proc.usedNames, uniqueVaults |-> proc.uniqueVaults],
                           proc.vaults[Len(proc.uniqueVaults) + 1])
     IN  proc' = [proc EXCEPT !.usedNames = acc.usedNames, !.uniqueVaults = acc.uniqueVaults]
  /\ UNCHANGED <<regVars, admVars, callVars, lifeVars, http, pair>>

NamesNext == UniqueVaultsStep

SpecNames == NamesInit /\ [][NamesNext]_vars

(***************************************************************************)
(* The constructor called directly with a list of vault configurations.     *)
(***************************************************************************)
ConfigPool ==
  {[name |-> n, path |-> t] :
     n \in {<<"a">>, <<"b">>},
     t \in {"/v/Work", "/v/Work/sub", "/w/work", "/v/plain", "/v/odd", "/v/locked"}}

ConstructInit ==
  /\ NoServer
  /\ \E configs \in BoundedSeq(ConfigPool, MaxConfigs) :
       proc = [NoProc EXCEPT !.pc = "construct", !.vaults = configs]

Construct ==
  /\ proc.pc = "construct"
  /\ LET r == Constructor(proc.vaults)
         started == "connectionMonitor.start" \in Range(r.steps)
     IN  /\ proc' = [proc EXCEPT !.steps = r.steps, !.error = r.error,
                                 !.pc = IF r.error.kind = "none" THEN "constructed" ELSE "threw"]
         /\ vaults' = IF r.error.kind = "none" THEN r.vaults ELSE vaults
         /\ connectionMonitor' = [connectionMonitor EXCEPT
                                    !.running = started,
                                    !.lastActivity = IF started THEN now ELSE @]
  /\ UNCHANGED <<tools, registered, regThrew, now, rateLimiter, lastSizeOk, served, callVars,
                 lifeVars, http, pair>>

ConstructNext == Construct

SpecConstruct == ConstructInit /\ [][ConstructNext]_vars

(***************************************************************************)
(* The HTTP listener of a server started over http.                         *)
(***************************************************************************)
HttpInit == DispatchInit /\ startState.type = "http"

HttpRequest ==
  /\ ~exited
  /\ httpServer
  /\ wire.listening
  /\ Len(http.exchanges) < MaxExchanges
  /\ \E method \in HttpMethods, url \in UrlInputs, outcome \in TransportOutcomes :
       LET req == [method |-> method, url |-> url]
           res == RequestListener(req, http.config, outcome)
           \* A POST the transport accepted carries a message, here a list-tools
           \* request, that the transport passes on to its handler.
           message == Request("tools/list", MaxMessageSize, NoParams)
           o == ListToolsHandler(message, tools, vaults, connectionMonitor, rateLimiter, now)
       IN  /\ http' = [http EXCEPT !.exchanges = Append(@, [req |-> req, res |-> res])]
           \* A rejection that leaves the async listener is unhandled and ends the process.
           /\ exited' = (exited \/ res.propagated)
           /\ IF res.handled /\ method = "POST" /\ outcome = "200"
              THEN /\ connectionMonitor' = o.cm
                   /\ rateLimiter' = o.rl
                   /\ lastSizeOk' = now
                   /\ served' = served + 1
                   /\ resp' = o.resp
                   /\ trace' = o.trace
                   /\ UNCHANGED <<now, inflight>>
              ELSE UNCHANGED <<admVars, callVars>>
  /\ UNCHANGED <<proc, pair, regVars, startState, wire, activeTransport,
                 httpServer, stops, isShuttingDown, shutdownCalls, firedIdle>>

HttpNext == HttpRequest

SpecHttp == HttpInit /\ [][HttpNext]_vars

(***************************************************************************)
(* Calls whose handlers overlap: call-tool requests suspended at their      *)
(* await while further requests arrive and time passes.                     *)
(***************************************************************************)
OverlapNext ==
  \/ ListToolsRequest
  \/ CallToolRequest
  \/ CallToolSettle
  \/ TickTo(RateWindow)

SpecOverlap == HttpInit /\ [][OverlapNext]_vars

(***************************************************************************)
(* The pair of servers: calls that both receive, from any sessions, calls   *)
(* that only one receives, and time passing for both.                       *)
(***************************************************************************)
PairRequest(method, size, session) ==
  [method |-> method, size |-> size, params |-> NoParams, session |-> session]

\* Both servers receive a call of the same method and size, each from some session.
PairCall ==
  /\ pair.calls < MaxCalls
  /\ \E m \in PairMethods, size \in Sizes, sl \in Sessions, sr \in Sessions :
       pair' = [pair EXCEPT
                  !.left = Receive(@, PairRequest(m, size, sl), tools, vaults, now),
                  !.right = Receive(@, PairRequest(m, size, sr), tools, vaults, now),
                  !.mixed = @ \/ sl # sr,
                  !.calls = @ + 1]
  /\ UNCHANGED <<proc, http, regVars, admVars, callVars, lifeVars>>

\* One of the two servers receives a call that the other does not.
SoloCall ==
  /\ pair.calls < MaxCalls
  /\ \E m \in PairMethods, size \in Sizes, s \in Sessions, side \in {"left", "right"} :
       pair' = [pair EXCEPT
                  ![side] = Receive(@, PairRequest(m, size, s), tools, vaults, now),
                  !.onlyOne = @ \cup {m},
                  !.calls = @ + 1]
  /\ UNCHANGED <<proc, http, regVars, admVars, callVars, lifeVars>>

PairNext ==
  \/ PairCall
  \/ SoloCall
  \/ TickTo(RateWindow)

PairInit == DispatchInit /\ startState.type = "stdio"

SpecPair == PairInit /\ [][PairNext]_vars

(***************************************************************************)
(* Properties.                                                              *)
(***************************************************************************)
RateLimitError == McpError("InvalidRequest", Line(<<"Rate limit exceeded">>))

AdmissionSteps == {"size", "activity", "rate"}

Count(seq, x) == Cardinality({i \in DOMAIN seq : seq[i] = x})

Last(seq) == seq[Len(seq)]

\* The steps of a call, in order, are an admission that ran size guard, activity
\* update and rate check once each in this order, stopped at the step that failed,
\* and was followed by the resolution and the handler only when all three passed.
AdmissionFirst(request, r, steps) ==
  /\ steps # <<>>
  /\ steps[1] = "size"
  /\ request.size > MaxMessageSize => steps = <<"size">>
  /\ request.size <= MaxMessageSize =>
       /\ Len(steps) >= 3
       /\ steps[2] = "activity"
       /\ steps[3] = "rate"
       /\ \A i \in 4..Len(steps) : steps[i] \notin AdmissionSteps
  /\ r.error = RateLimitError => steps = <<"size", "activity", "rate">>

\* C1: every request of the six handlers runs the size guard, then the activity
\* update, then the rate check, before any resolution or handler; a failed admission
\* step ends the call with nothing after it.
C1_AdmissionOrder ==
  /\ resp.request.method # "none" =>
       /\ resp.request.method \in Methods
       /\ AdmissionFirst(resp.request, resp, trace)
  /\ \A k \in DOMAIN inflight :
       /\ inflight[k].request.size <= MaxMessageSize
       /\ SubSeq(inflight[k].trace, 1, 3) = <<"size", "activity", "rate">>
       /\ \A i \in 4..Len(inflight[k].trace) : inflight[k].trace[i] \notin AdmissionSteps

\* A call-tool request was rejected by the rate check: nothing ran after it.
C1_Witness ==
  /\ resp.request.method = "tools/call"
  /\ resp.request.params.name = S("echo")
  /\ resp.error = RateLimitError
  /\ trace = <<"size", "activity", "rate">>

\* The arguments violate the z.object schema of the tool.
ArgsInvalid(tool, args) ==
  \/ args.kind # "object"
  \/ \E f \in Range(SchemaFields(tool.inputSchema)) :
       f \notin DOMAIN args.fields \/ args.fields[f].t # "string"

\* C2: a call-tool request whose arguments fail the resolved tool's schema never
\* invokes the handler and ends with an InvalidParams error.
C2_InvalidArgsNoHandler ==
  /\ ( /\ resp.request.method = "tools/call"
       /\ resp.tool # NoTool
       /\ ArgsInvalid(resp.tool, resp.request.params.arguments) )
     => /\ ~resp.ok
        /\ resp.error.kind = "McpError"
        /\ resp.error.code = "InvalidParams"
        /\ Count(trace, "handler") = 0
        /\ resp.thrown = NoError
        /\ resp.returned = <<>>
  /\ \A k \in DOMAIN inflight :
       ~ArgsInvalid(inflight[k].tool, inflight[k].request.params.arguments)

\* The echo tool was called with a number as its message.
C2_Witness ==
  /\ resp.request.method = "tools/call"
  /\ resp.tool = EchoTool
  /\ resp.request.params.arguments = Obj([message |-> N("42")])
  /\ resp.error.kind = "McpError"
  /\ resp.error.code = "InvalidParams"

\* The request passed admission: the rate check ran and admitted it.
Admitted(r, steps) == Count(steps, "rate") = 1 /\ r.error # RateLimitError

\* C3: an admitted call-tool request whose (non-empty) name is not a key of the
\* registry, compared exactly, fails with MethodNotFound; no argument is parsed, no
\* handler is invoked and the registry keeps its entries.
C3_UnknownTool ==
  /\ ( /\ resp.request.method = "tools/call"
       /\ Admitted(resp, trace)
       /\ resp.request.params.name.v # ""
       /\ ~MapHas(tools, resp.request.params.name.v) )
     => /\ resp.error =
             McpError("MethodNotFound", Line(<<"Unknown tool: ", resp.request.params.name.v>>))
        /\ resp.tool = NoTool
        /\ Count(trace, "parse") = 0
        /\ Count(trace, "handler") = 0
  /\ \A k \in DOMAIN inflight : MapHas(tools, inflight[k].request.params.name.v)
  /\ MapValues(tools) = <<EchoTool, ReadNoteTool>>

\* "Echo" was called while only "echo" is registered.
C3_Witness ==
  /\ resp.request.method = "tools/call"
  /\ resp.request.params.name = S("Echo")
  /\ resp.error.kind = "McpError"
  /\ resp.error.code = "MethodNotFound"

\* C4: a call-tool request that reached its handler ran it exactly once; a handler
\* failure is reported as InternalError with the original message, a McpError of the
\* handler unchanged, and never as another error kind such as InvalidParams.
C4_HandlerErrorsWrapped ==
  ( /\ resp.request.method = "tools/call"
    /\ Count(trace, "handler") > 0 )
  => /\ Count(trace, "handler") = 1
     /\ resp.thrown = NoError => resp.ok
     /\ resp.thrown.kind = "McpError" => resp.error = resp.thrown
     /\ resp.thrown.kind = "Error" =>
          resp.error = McpError("InternalError",
                                Line(<<"Tool execution failed: ", resp.thrown.message>>))
     /\ resp.thrown.kind = "ZodError" =>
          resp.error.kind = "McpError" /\ resp.error.code = "InternalError"

\* C5: a successful call-tool response carries exactly the content its handler
\* returned, and _meta with the requested name, success = true and a timestamp; the
\* echo tool called with {message: m} returns [{type: text, text: m}].
C5_SuccessEnvelope ==
  ( /\ resp.request.method = "tools/call"
    /\ resp.ok )
  => /\ resp.result.content = resp.returned
     /\ resp.thrown = NoError
     /\ DOMAIN resp.result = {"meta", "content"}
     /\ DOMAIN resp.result.meta = {"toolName", "timestamp", "success"}
     /\ resp.result.meta.toolName = resp.request.params.name.v
     /\ resp.result.meta.success = TRUE
     /\ resp.result.meta.timestamp = now
     /\ resp.tool = EchoTool =>
          resp.result.content =
            <<[type |-> "text", text |-> resp.request.params.arguments.fields["message"].v]>>

\* The echo tool answered {message: "hi"} with the text "hi".
C5_Witness ==
  /\ resp.request.method = "tools/call"
  /\ resp.ok
  /\ resp.request.params.arguments = Obj([message |-> S("hi")])
  /\ resp.result.content = <<[type |-> "text", text |-> "hi"]>>
  /\ resp.result.meta.success = TRUE

\* The first and the last registration of a name, as positions in the history.
FirstOf(name) ==
  CHOOSE i \in DOMAIN registered :
    /\ registered[i].name = name
    /\ \A j \in 1..(i - 1) : registered[j].name # name

LastOf(name) ==
  CHOOSE i \in DOMAIN registered :
    /\ registered[i].name = name
    /\ \A j \in (i + 1)..Len(registered) : registered[j].name # name

\* The names of a sequence of descriptors, each once, in the order of first appearance.
RECURSIVE FirstNames(_, _)
FirstNames(ds, seen) ==
  IF ds = <<>> THEN <<>>
  ELSE IF Head(ds).name \in seen THEN FirstNames(Tail(ds), seen)
  ELSE <<Head(ds).name>> \o FirstNames(Tail(ds), seen \cup {Head(ds).name})

\* C6: registering a name that is already registered is rejected with an error and
\* the descriptor registered first stays in place.
C6_DuplicateRejected ==
  /\ \A i \in DOMAIN tools : tools[i].value = registered[FirstOf(tools[i].key)]
  /\ ( /\ registered # <<>>
       /\ FirstOf(Last(registered).name) # Len(registered) ) => regThrew

\* C7: a list-tools response reports every registered name exactly once, in the
\* order the names were first registered, each with the name, the description and
\* the JSON schema of the descriptor registered under that name last.
C7_ListToolsRegistered ==
  ( /\ resp.request.method = "tools/list"
    /\ resp.ok )
  => LET listed == resp.result.tools
     IN  /\ [i \in DOMAIN listed |-> listed[i].name] = FirstNames(registered, {})
         /\ \A i, j \in DOMAIN listed : listed[i].name = listed[j].name => i = j
         /\ \A i \in DOMAIN listed :
              LET d == registered[LastOf(listed[i].name)]
              IN  listed[i] = [name |-> d.name, description |-> d.description,
                               inputSchema |-> JsonSchema(d.inputSchema)]

\* Three registrations, one of them of a name registered before, were listed.
C7_Witness ==
  /\ resp.request.method = "tools/list"
  /\ resp.ok
  /\ Len(registered) = 3
  /\ Len(resp.result.tools) = 2

StopRank(step) ==
  CASE step = "monitor" -> 1
    [] step = "transport" -> 2
    [] step = "listener" -> 3
    [] step = "server" -> 4
    [] OTHER -> 5

\* C8: every invocation of stop() stops the watchdog first, then closes the active
\* transport, then the listener, then the protocol server, and reports stopped only
\* after these.
C8_StopOrder ==
  \A k \in DOMAIN stops :
    LET log == stops[k].log
    IN  /\ log # <<>>
        /\ log[1] = "monitor"
        /\ \A i, j \in DOMAIN log : i < j => StopRank(log[i]) < StopRank(log[j])
        /\ Count(log, "report") = 1 => Count(log, "server") = 1 /\ Last(log) = "report"
        /\ stops[k].status = "resolved" <=> Count(log, "report") = 1

\* A stop() of a running HTTP server went through all five steps.
C8_Witness ==
  \E k \in DOMAIN stops :
    /\ stops[k].log = <<"monitor", "transport", "listener", "server", "report">>
    /\ stops[k].status = "resolved"

\* C9: whichever step of stop() fails, stop() does not propagate the error
\* and ends with the server reported stopped.
C9_StopNeverRejects ==
  \A k \in DOMAIN stops :
    /\ stops[k].status # "rejected"
    /\ Settled(stops[k]) => Last(stops[k].log) = "report"

\* C10: the watchdog invokes the shutdown callback at most once, and only when no
\* request passed admission's size guard for longer than the grace period in force;
\* while it runs, the idle time never exceeds the grace period by more than the one
\* time unit after which it fires.
C10_IdleShutdownOnce ==
  /\ shutdownCalls <= 1
  /\ shutdownCalls = 1 =>
       /\ firedIdle.sinceRequest > firedIdle.grace
       /\ firedIdle.grace \in {IdleTimeout, StartupGrace}
       /\ ~connectionMonitor.running
  /\ connectionMonitor.running =>
       now - lastSizeOk <= Threshold(connectionMonitor) + 1
  /\ lastSizeOk > 0 => connectionMonitor.initialized

\* The watchdog fired after a request had reset the idle window.
C10_Witness ==
  /\ shutdownCalls = 1
  /\ lastSizeOk > 0
  /\ firedIdle.grace = IdleTimeout

\* The position of x in seq, 0 when it is not there.
IndexOf(seq, x) ==
  IF \E i \in DOMAIN seq : seq[i] = x THEN CHOOSE i \in DOMAIN seq : seq[i] = x ELSE 0

\* C11: when more vault paths are given than MAX_VAULTS, no check, stat or access of
\* any vault path has happened, neither before nor when the too-many-vaults error is
\* reported.
C11_TooManyBeforeValidation ==
  Len(proc.vaultArgs) > MAX_VAULTS =>
    \A i \in DOMAIN proc.mappers : proc.mappers[i].log = <<>>

\* C12: every path in the vault registry went through the character check, then the
\* local-filesystem check, then the suspicious-location check.
C12_ChecksInOrder ==
  \A k \in DOMAIN vaults : \A i \in DOMAIN proc.mappers :
    proc.mappers[i].abs = vaults[k].value =>
      LET log == proc.mappers[i].log
      IN  /\ IndexOf(log, "checkPathCharacters") > 0
          /\ IndexOf(log, "checkPathCharacters") < IndexOf(log, "checkLocalPath")
          /\ IndexOf(log, "checkLocalPath") < IndexOf(log, "checkSuspiciousPath")

\* C13: the registry of every constructed server holds no path twice and no path
\* inside another one.
C13_RegistryNoOverlap ==
  proc.pc = "constructed" =>
    \A i, j \in DOMAIN vaults :
      i # j => ~IsPrefix(Fs(vaults[i].value).abs, Fs(vaults[j].value).abs)

\* The names assigned to the vaults before the i-th one.
Earlier(i) == {proc.uniqueVaults[j].name : j \in 1..(i - 1)}

\* C14 as claimed: the first vault with a name keeps it and the k-th later vault with
\* that name gets the suffix -k.
C14_BareThenCounted ==
  \A i \in DOMAIN proc.uniqueVaults :
    LET name == proc.vaults[i].name
        same == {j \in 1..(i - 1) : proc.vaults[j].name = name}
    IN  proc.uniqueVaults[i].name =
          IF same = {} THEN name ELSE name \o <<NumStr(Cardinality(same))>>

\* C14: the assigned names are pairwise distinct; a vault keeps its name when no
\* earlier vault was assigned it, and otherwise gets the name with the least suffix
\* -1, -2, ... that no earlier vault was assigned; paths keep their order.
C14_NamesUnique ==
  /\ \A i, j \in DOMAIN proc.uniqueVaults :
       i # j => proc.uniqueVaults[i].name # proc.uniqueVaults[j].name
  /\ \A i \in DOMAIN proc.uniqueVaults :
       LET name == proc.vaults[i].name
           got  == proc.uniqueVaults[i].name
       IN  /\ proc.uniqueVaults[i].path = proc.vaults[i].path
           /\ name \notin Earlier(i) => got = name
           /\ name \in Earlier(i) =>
                \E c \in 1..i :
                  /\ got = name \o <<NumStr(c)>>
                  /\ \A d \in 1..(c - 1) : (name \o <<NumStr(d)>>) \in Earlier(i)

\* work, work-1, work came out as work, work-1, work-2.
C14_Witness ==
  /\ proc.pc = "names"
  /\ [i \in DOMAIN proc.vaults |-> proc.vaults[i].name] = <<<<"work">>, <<"work", "1">>, <<"work">>>>
  /\ [i \in DOMAIN proc.uniqueVaults |-> proc.uniqueVaults[i].name]
       = <<<<"work">>, <<"work", "1">>, <<"work", "2">>>>

\* The configured path followed by any number of copies of its first segment.
RepeatedBase(pathname, base) ==
  /\ ~pathname.trailing
  /\ Len(pathname.segments) >= Len(base.segments)
  /\ SubSeq(pathname.segments, 1, Len(base.segments)) = base.segments
  /\ \A k \in (Len(base.segments) + 1)..Len(pathname.segments) :
       pathname.segments[k] = base.segments[1]

\* C15: a request to the configured path followed by repeated copies of its first
\* segment is served like one to the configured path; every other path gets 404.
C15_RepeatedBaseAccepted ==
  \A k \in DOMAIN http.exchanges :
    LET e == http.exchanges[k]
    IN  IF RepeatedBase(Pathname(e.req.url), http.config.path)
        THEN e.res.status # "404"
        ELSE e.res.status = "404"

\* C16: a POST to <configured path>/list_actions is answered 200.
C16_ListActionsServed ==
  \A k \in DOMAIN http.exchanges :
    LET e == http.exchanges[k]
    IN  (/\ e.req.method = "POST"
         /\ Pathname(e.req.url) =
              ConfigPath(Append(http.config.path.segments, "list_actions")))
          => e.res.status = "200"

\* C17: a process that ended with a non-zero status during startup wrote exactly one
\* line to stdout, a JSON-RPC error envelope with id null, and its diagnostics to stderr.
C17_OneJsonLine ==
  (proc.pc = "exited" /\ proc.exitCode # 0) =>
    /\ Len(proc.stdout) = 1
    /\ proc.stdout[1].kind = "json"
    /\ proc.stdout[1].jsonrpc = "2.0"
    /\ proc.stdout[1].id = "null"
    /\ proc.stdout[1].error.code \in {"InvalidRequest", "InternalError"}
    /\ proc.stderr # <<>>
    /\ \A k \in DOMAIN proc.stderr : proc.stderr[k].kind = "text"

\* A bad command-line option ended the process with status 1 and one JSON line.
C17_Witness ==
  /\ proc.pc = "exited"
  /\ proc.exitCode = 1
  /\ proc.vaultArgs # <<>>
  /\ proc.mappers = <<>>
  /\ Len(proc.stdout) = 1

\* Some configuration of the list has no .obsidian directory.
BadMarker(configs) == \E i \in DOMAIN configs : Fs(configs[i].path).marker # "dir"

\* C18: the constructor throws exactly when the list is empty or a vault lacks its
\* .obsidian directory; it throws InvalidRequest, and then the watchdog was not started
\* and no handler was installed.
C18_ConstructionAtomic ==
  /\ proc.pc \in {"threw", "constructed"} =>
       (proc.pc = "threw" <=> (proc.vaults = <<>> \/ BadMarker(proc.vaults)))
  /\ proc.pc = "threw" =>
       /\ proc.error.kind = "McpError"
       /\ proc.error.code = "InvalidRequest"
       /\ ~connectionMonitor.running
       /\ "setupHandlers" \notin Range(proc.steps)
       /\ "new Server" \notin Range(proc.steps)
       /\ vaults = <<>>

\* The second of two vaults has a .obsidian that is not a directory: the constructor
\* threw after the first vault had been entered.
C18_Witness ==
  /\ proc.pc = "threw"
  /\ Len(proc.vaults) = 2
  /\ Fs(proc.vaults[1].path).marker = "dir"
  /\ Fs(proc.vaults[2].path).marker = "file"
  /\ "vaults.set" \in Range(proc.steps)

\* A vault path that passes every individual check.
PathPasses(text) ==
  LET f == Fs(text)
  IN  /\ f.local = "" /\ f.suspicious = "" /\ f.stat = "dir" /\ f.rw
      /\ f.marker = "dir" /\ f.app = "ok"

\* C20: a failing vault path does not end startup while a sibling path passes.
C20_FailingPathDropped ==
  (/\ proc.pc = "exited"
   /\ proc.exitCode = 1
   /\ proc.mappers # <<>>
   /\ Len(proc.vaultArgs) <= MAX_VAULTS
   /\ startState.phase = "new"
   /\ \E i \in DOMAIN proc.vaultArgs : ~PathPasses(proc.vaultArgs[i]))
    => \A i \in DOMAIN proc.vaultArgs : ~PathPasses(proc.vaultArgs[i])

(***************************************************************************)
(* Admission under overlapping calls.                                       *)
(***************************************************************************)
\* The request a step received, with the steps its handler has run so far.
Arrived ==
  IF Len(inflight') > Len(inflight)
  THEN [request |-> Last(inflight').request, steps |-> Last(inflight').trace,
        limited |-> FALSE]
  ELSE [request |-> resp'.request, steps |-> trace', limited |-> resp'.error = RateLimitError]

\* The calls of a key that are still inside the window at time t.
InWindow(key, t) == SelectSeq(rateLimiter[key], LAMBDA x : x > t - RateWindow)

HasMeta(result) ==
  /\ "meta" \in DOMAIN result
  /\ "timestamp" \in DOMAIN result.meta
  /\ \/ {"toolName", "success"} \subseteq DOMAIN result.meta
     \/ "promptName" \in DOMAIN result.meta

\* C22: every successful response of a handler that builds its result in the
\* dispatcher (list-tools, get-prompt, list-resources, read-resource, call-tool)
\* carries a _meta object with a timestamp and either toolName and success or
\* promptName. The list-prompts result is the prompt factory's own and is left out.
C22_MetaOnEveryResponse ==
  (resp.ok /\ resp.request.method \in Methods \ {"prompts/list"}) => HasMeta(resp.result)

\* Successful get-prompt and call-tool responses, the two that do carry _meta.
C22_Witness ==
  /\ resp.ok
  /\ resp.request.method \in {"prompts/get", "tools/call"}
  /\ HasMeta(resp.result)

(***************************************************************************)
(* The report of invalid arguments.                                         *)
(***************************************************************************)
\* The fields of the tool's schema that the arguments violate, in schema order.
Violated(tool, args) ==
  SelectSeq(SchemaFields(tool.inputSchema),
            LAMBDA f : f \notin DOMAIN args.fields \/ args.fields[f].t # "string")

\* Object arguments that violate k fields of the resolved tool's schema give the
\* heading and k lines, the i-th for the i-th violated field; arguments that are no
\* object give one line, the message alone.
ArgumentLines ==
  ( /\ resp.request.method = "tools/call"
    /\ resp.tool # NoTool
    /\ Count(trace, "handler") = 0
    /\ ArgsInvalid(resp.tool, resp.request.params.arguments) )
  => LET args == resp.request.params.arguments
         msg == resp.error.message
     IN  /\ resp.error.kind = "McpError"
         /\ resp.error.code = "InvalidParams"
         /\ msg[1] = <<"Invalid arguments:">>
         /\ IF args.kind = "object"
            THEN LET bad == Violated(resp.tool, args)
                 IN  /\ Len(msg) = 1 + Len(bad)
                     /\ \A i \in DOMAIN bad :
                          /\ Len(msg[i + 1]) = 3
                          /\ msg[i + 1][1] = bad[i]
                          /\ msg[i + 1][2] = ": "
                          /\ msg[i + 1][3] \in {"Required", "Expected string, received number"}
            ELSE msg = <<<<"Invalid arguments:">>, <<"Required">>>>

\* A violation found below the top level, as the one a handler's own parse of nested
\* data raises, is reported the same way with the path's keys joined by dots.
NestedPathJoined ==
  (resp.request.method = "tools/call" /\ resp.thrown.kind = "ZodError")
  => resp.error.message =
       <<<<"Invalid arguments:">>, <<"frontmatter", ".", "tags", ": ", "Invalid">>>>

\* C23: a call that fails schema validation with k violations ends with
\* InvalidParams whose message is the heading 'Invalid arguments:' followed by
\* exactly k lines, each the dot-joined field path and ': ' (both omitted when the
\* path is empty) followed by the violation's message.
C23_OneLinePerViolation == ArgumentLines /\ NestedPathJoined

\* read-note was called with a number as vault and no filename: two violations.
C23_Witness ==
  /\ resp.request.method = "tools/call"
  /\ resp.tool = ReadNoteTool
  /\ resp.request.params.arguments = Obj([vault |-> N("1")])
  /\ Len(resp.error.message) = 3

(***************************************************************************)
(* Malformed envelopes.                                                     *)
(***************************************************************************)
\* A request whose envelope lacks what its handler needs: a call-tool or get-prompt
\* request with a missing, empty or non-string name, a read-resource request with a
\* missing URI.
Malformed(request) ==
  \/ /\ request.method \in {"tools/call", "prompts/get"}
     /\ request.params.name.t # "string" \/ request.params.name.v = ""
  \/ /\ request.method = "resources/read"
     /\ request.params.uri = <<"", "">>

\* C24: a request with a malformed envelope fails with InvalidParams before
\* admission control is touched: neither the size guard, the activity update nor the
\* rate check has run for it.
C24_EnvelopeBeforeAdmission ==
  Malformed(resp.request)
  => /\ resp.error.kind = "McpError"
     /\ resp.error.code = "InvalidParams"
     /\ trace = <<>>

\* A call-tool request with an empty name was answered InvalidParams after its
\* admission had moved the clock and entered the rate window.
C24_Witness ==
  /\ resp.request.method = "tools/call"
  /\ Malformed(resp.request)
  /\ resp.error.kind = "McpError"
  /\ resp.error.code = "InvalidParams"
  /\ trace = <<"size", "activity", "rate">>
  /\ Len(rateLimiter["tools/call"]) = 1

(***************************************************************************)
(* The scheme of a resource URI.                                            *)
(***************************************************************************)
\* C25: an admitted read-resource request whose URI does not start with
\* obsidian-vault:// fails with InvalidParams, and the vault reader is invoked only
\* for URIs that start with that scheme.
C25_SchemeBeforeReader ==
  resp.request.method = "resources/read"
  => LET uri == resp.request.params.uri
     IN  /\ Count(trace, "readResource") > 0 => uri[1] = VaultScheme
         /\ (Admitted(resp, trace) /\ uri[1] # VaultScheme)
            => /\ ~resp.ok
               /\ resp.error.kind = "McpError"
               /\ resp.error.code = "InvalidParams"
               /\ Count(trace, "readResource") = 0

\* An admitted read of a file:// URI was refused without the reader.
C25_Witness ==
  /\ resp.request.method = "resources/read"
  /\ resp.request.params.uri = <<"file://", "/etc/passwd">>
  /\ Admitted(resp, trace)
  /\ resp.error.kind = "McpError"
  /\ resp.error.code = "InvalidParams"
  /\ Count(trace, "readResource") = 0

(***************************************************************************)
(* The HTTP listener: methods and transport errors.                         *)
(***************************************************************************)
OnConfiguredPath(e) == Pathname(e.req.url) = http.config.path

\* C26: on the configured path only POST, OPTIONS and DELETE are served: a request
\* with any other method is answered 404 and is not handed to the transport, and
\* OPTIONS is answered with that set of allowed methods.
C26_OnlyPostOptionsDelete ==
  \A k \in DOMAIN http.exchanges :
    LET e == http.exchanges[k]
    IN  OnConfiguredPath(e) =>
          /\ e.req.method \notin {"POST", "OPTIONS", "DELETE"}
             => (e.res.status = "404" /\ ~e.res.handled)
          /\ e.req.method = "OPTIONS" => e.res.allow = {"POST", "OPTIONS", "DELETE"}

\* An OPTIONS request on the configured path was answered 204 without the transport.
C26_Witness ==
  \E k \in DOMAIN http.exchanges :
    LET e == http.exchanges[k]
    IN  /\ OnConfiguredPath(e)
        /\ e.req.method = "OPTIONS"
        /\ e.res.status = "204"
        /\ ~e.res.handled
        /\ e.res.allow # {}

\* C30: while the HTTP server runs, an error the transport throws while handling a
\* request is logged, is answered 500 'Internal Server Error' when no headers were
\* sent yet (otherwise the response already begun is left as it is), and never
\* leaves the listener: the process lives on and the server keeps listening.
C30_TransportErrorContained ==
  /\ \A k \in DOMAIN http.exchanges :
       LET e == http.exchanges[k]
       IN  e.res.threw =>
             /\ e.res.logged
             /\ ~e.res.propagated
             /\ ~e.res.headersSent => (e.res.status = "500" /\ e.res.body = "Internal Server Error")
             /\ e.res.headersSent => e.res.status # "500"
  /\ ~exited
  /\ httpServer
  /\ wire.listening

\* The transport threw on the first request, which was answered 500, and the next
\* request on the same path was handed to the transport and answered 200.
C30_Witness ==
  /\ Len(http.exchanges) = 2
  /\ http.exchanges[1].res.threw
  /\ http.exchanges[1].res.status = "500"
  /\ http.exchanges[2].res.handled
  /\ ~http.exchanges[2].res.threw
  /\ http.exchanges[2].res.status = "200"

(***************************************************************************)
(* The watchdog after stop().                                               *)
(***************************************************************************)
\* C27: once stop() has been called, the idle watchdog never invokes the shutdown
\* callback: the only invocation of stop() the watchdog can cause is the first one,
\* and from the first invocation on the watchdog's timer is cancelled.
C27_NoCallbackAfterStop ==
  /\ \A k \in DOMAIN stops : stops[k].cause = "idle" => k = 1
  /\ stops # <<>> => ~connectionMonitor.running
  /\ (stops # <<>> /\ stops[1].cause # "idle") => shutdownCalls = 0

\* A stop() called for a signal is still closing the transport, the server has been
\* idle for longer than the grace period, and the callback has not been invoked.
C27_Witness ==
  /\ stops # <<>>
  /\ stops[1].cause = "signal"
  /\ stops[1].status = "awaiting"
  /\ now - connectionMonitor.lastActivity > Threshold(connectionMonitor)
  /\ shutdownCalls = 0

(***************************************************************************)
(* The stdio channel closing.                                               *)
(***************************************************************************)
\* C28: once the stdio channel has closed the server is stopped without any further
\* trigger: the watchdog is stopped and the transport is released; and no request is
\* dispatched after the close.
C28_StoppedOnChannelClose ==
  wire.ended =>
    /\ ~connectionMonitor.running
    /\ activeTransport = "none"

\* The channel closed, and the server stopped only when the idle watchdog fired.
C28_Witness ==
  /\ wire.ended
  /\ startState.type = "stdio"
  /\ shutdownCalls = 1
  /\ stops[1].cause = "idle"

(***************************************************************************)
(* Rate limiting across sessions and methods.                               *)
(***************************************************************************)
\* C29: the admission decisions for a method depend only on the method and on the
\* recent calls of that method, whatever session sent them: two servers whose call
\* histories differ only in the sessions of the calls and in calls of other methods
\* give the same sequence of decisions for the method, and hold the same window for it.
C29_DecisionsByMethodOnly ==
  \A m \in PairMethods \ pair.onlyOne :
    /\ pair.left.decisions[m] = pair.right.decisions[m]
    /\ pair.left.rl[m] = pair.right.rl[m]

\* The two servers received a call from different sessions, one of them also calls
\* of another method, and both refused a call of the common method for its rate.
C29_Witness ==
  /\ pair.mixed
  /\ pair.onlyOne = {"prompts/list"}
  /\ pair.left.rl["prompts/list"] # pair.right.rl["prompts/list"]
  /\ \E i \in DOMAIN pair.left.decisions["tools/list"] :
       /\ pair.left.decisions["tools/list"][i] = RateLimitError
       /\ pair.right.decisions["tools/list"][i] = RateLimitError

(***************************************************************************)
(* stop() invoked while a stop() is in progress.                            *)
(***************************************************************************)
\* How often the invocations of stop() so far ran the close of a step.
Closes(step) ==
  Cardinality({<<k, i>> \in (DOMAIN stops) \X (1..Len(StopProgram)) :
                 i \in DOMAIN stops[k].log /\ stops[k].log[i] = step})

\* C31: however the invocations of stop() interleave, the active transport and the
\* HTTP listener are each closed at most once.
C31_ClosedAtMostOnce ==
  /\ Closes("transport") <= 1
  /\ Closes("listener") <= 1

\* The watchdog's stop() and a signal's stop() are both in progress.
C31_Witness ==
  /\ Len(stops) = 2
  /\ stops[1].cause = "idle"
  /\ stops[2].cause = "signal"
  /\ stops[1].status = "awaiting"
  /\ stops[2].status = "awaiting"

(***************************************************************************)
(* What a refused request leaves behind.                                    *)
(***************************************************************************)
PayloadTooLarge == McpError("InvalidRequest", Line(<<"PayloadTooLarge">>))

\* C32: a request rejected by the message-size guard leaves the activity clock and
\* every rate-limiter window as they were before the call, and is answered with the
\* guard's error.
C32_OversizeChangesNothing ==
  [][ (served' = served + 1 /\ Arrived.request.size > MaxMessageSize)
      => /\ connectionMonitor' = connectionMonitor
         /\ rateLimiter' = rateLimiter
         /\ resp'.error = PayloadTooLarge ]_vars

\* An oversize request was refused when the clock was older than the present and the
\* window of its method held a call that a rate check would have dropped by now.
C32_Witness ==
  /\ resp.error = PayloadTooLarge
  /\ trace = <<"size">>
  /\ connectionMonitor.initialized
  /\ connectionMonitor.lastActivity < now
  /\ \E i \in DOMAIN rateLimiter[resp.request.method] :
       rateLimiter[resp.request.method][i] <= now - RateWindow

(***************************************************************************)
(* Rate-limited requests and the idle watchdog.                             *)
(***************************************************************************)
\* C33: a request rejected by the rate limiter has refreshed the activity clock
\* before it was rejected, so it counts as activity: the clock holds the time of the
\* rejected request, and as long as no more than the idle timeout has passed since
\* it, the watchdog is not due and cannot invoke the shutdown callback.
C33_LimitedCountsAsActivity ==
  resp.error = RateLimitError
  => /\ connectionMonitor.initialized
     /\ connectionMonitor.lastActivity = lastSizeOk
     /\ now - lastSizeOk <= IdleTimeout => ~Overdue

\* The last request was rate-limited; the idle timeout has passed since the last
\* admitted request but not since the rate-limited one, and the watchdog, still
\* running, has not fired.
C33_Witness ==
  /\ resp.error = RateLimitError
  /\ connectionMonitor.running
  /\ shutdownCalls = 0
  /\ now - lastSizeOk <= IdleTimeout
  /\ rateLimiter[resp.request.method] # <<>>
  /\ \A i \in DOMAIN rateLimiter[resp.request.method] :
       now - rateLimiter[resp.request.method][i] > IdleTimeout

(***************************************************************************)
(* What the listener's own answers leave behind.                            *)
(***************************************************************************)
\* The exchange a step of the listener added.
Answered == Last(http'.exchanges)

\* C34: an HTTP request whose path is not the configured one, answered 404, or that
\* is an OPTIONS request, answered 204, is not handed to the transport, reaches no
\* handler, and leaves the activity clock, the rate-limiter windows, the registries
\* and the state of the transport as they were.
C34_ListenerAnswersTouchNothing ==
  [][ (Len(http'.exchanges) = Len(http.exchanges) + 1
       /\ (Pathname(Answered.req.url) # http.config.path \/ Answered.req.method = "OPTIONS"))
      => /\ Answered.res.status \in {"404", "204"}
         /\ ~Answered.res.handled
         /\ UNCHANGED <<connectionMonitor, rateLimiter, served, lastSizeOk>>
         /\ UNCHANGED <<resp, trace, inflight>>
         /\ UNCHANGED <<tools, vaults, registered>>
         /\ UNCHANGED <<activeTransport, wire, httpServer>> ]_vars

\* After a POST on the configured path had reached the list-tools handler, a request
\* on another path was answered 404 and an OPTIONS request would find the same state.
C34_Witness ==
  /\ Len(http.exchanges) = 2
  /\ http.exchanges[1].res.handled
  /\ served = 1
  /\ connectionMonitor.initialized
  /\ rateLimiter["tools/list"] # <<>>
  /\ http.exchanges[2].res.status = "404"
  /\ ~http.exchanges[2].res.handled

====
